---------------------------- MODULE Spec2Model ----------------------------
(***************************************************************************)
(* A model of the artifact-selection core of vcpkg-artifacts:              *)
(*   - the media-query evaluator (mediaquery/media-query.js),              *)
(*   - the media-query scanner and parser (mediaquery/scanner.js,          *)
(*     mediaquery/media-query.js),                                         *)
(*   - the registry index (registries/indexer.js, src/unnamed/part_000).   *)
(*                                                                         *)
(* Strings are sequences of one-character strings, so that scanning,       *)
(* splitting and comparison are computed character by character.           *)
(* An optional value (a JavaScript value that may be `undefined`) is a     *)
(* sequence of length at most one: <<>> is undefined, <<x>> is x.          *)
(***************************************************************************)
EXTENDS Integers, Sequences, FiniteSets, TLC

VARIABLES
    queryList,      \* the QueryList object: [queries, error]
    properties,     \* the context handed to QueryList.match
    matchResult,    \* <<>> before match ran, <<b>> once match returned b
    text,           \* the query text handed to parseQuery
    cursor,         \* the Scanner: its private position and its current token
    pc,             \* where the parser stands
    isNotted,       \* Expression.parse: the isNotted argument of the running call
    parenDepth,     \* Expression.parse: calls waiting for their close parenthesis
    feature,        \* Expression.parse: the feature token taken, if any
    returned,       \* Expression.parse: the expression a call has returned
    result,         \* Query.parse: the expressions of the query being parsed
    skipping,       \* Scanner.advance: the locals of a call with count >= 3
    heap,           \* the Set objects of ids created so far, by position
    targets,        \* Index.indexOfTargets of the index, shared with its views
    schemas,        \* the schema objects: the index's own first, then the views
    handles,        \* the schemas returned by the calls of Index.where
    persisted,      \* the object graph returned by Index.serialize, if any
    restored,       \* the new Index that has deserialized it, if any
    thrown,         \* the error that Index.deserialize has thrown, if any
    stream,         \* a call of ReadHandle.readStream: its arguments, what it has yielded
    acquire         \* a call of acquireArtifacts: its loop, the installs, the session

matchVars == <<queryList, properties, matchResult>>

parseVars == <<text, cursor, pc, isNotted, parenDepth, feature, returned, result, skipping>>

indexVars == <<heap, targets, schemas, handles, persisted, restored, thrown>>

sessionVars == <<stream, acquire>>

vars == <<queryList, properties, matchResult,
          text, cursor, pc, isNotted, parenDepth, feature, returned, result, skipping,
          heap, targets, schemas, handles, persisted, restored, thrown,
          stream, acquire>>

-----------------------------------------------------------------------------
(* Optional values *)

None == <<>>

Some(x) == <<x>>

IsSome(o) == Len(o) = 1

-----------------------------------------------------------------------------
(* String literals used by the code and by the scenarios *)

S_false == <<"f", "a", "l", "s", "e">>

S_true == <<"t", "r", "u", "e">>

S_os == <<"o", "s">>

S_arch == <<"a", "r", "c", "h">>

S_windows == <<"w", "i", "n", "d", "o", "w", "s">>

S_linux == <<"l", "i", "n", "u", "x">>

S_x64 == <<"x", "6", "4">>

S_espidf == <<"e", "s", "p", "i", "d", "f">>

S_a == <<"a">>

-----------------------------------------------------------------------------
(* JavaScript values of a context *)

JSUndefined == [t |-> "undefined"]

JSNull == [t |-> "null"]

JSBool(b) == [t |-> "boolean", b |-> b]

JSNum(n) == [t |-> "number", n |-> n]

JSStr(s) == [t |-> "string", s |-> s]

JSArr(a) == [t |-> "array", a |-> a]

JSObj == [t |-> "object"]

DigitChar(d) ==
    CASE d = 0 -> "0" [] d = 1 -> "1" [] d = 2 -> "2" [] d = 3 -> "3"
      [] d = 4 -> "4" [] d = 5 -> "5" [] d = 6 -> "6" [] d = 7 -> "7"
      [] d = 8 -> "8" [] OTHER -> "9"

RECURSIVE NatToString(_)
NatToString(n) ==
    IF n < 10 THEN <<DigitChar(n)>>
    ELSE NatToString(n \div 10) \o <<DigitChar(n % 10)>>

\* Number.prototype.toString for integers
NumToString(n) == IF n < 0 THEN <<"-">> \o NatToString(0 - n) ELSE NatToString(n)

\* truthiness of an optional string: undefined and '' are falsy
Truthy(o) == IsSome(o) /\ o[1] # <<>>

\* stringValue with an array whose first element is false or 0 coerced to "true"
RECURSIVE stringValue_FalsyFirst(_)
stringValue_FalsyFirst(value) ==
    CASE value.t = "string" -> Some(value.s)
      [] value.t = "number" -> Some(NumToString(value.n))
      [] value.t = "boolean" -> Some(IF value.b THEN S_true ELSE S_false)
      [] value.t = "null" -> Some(S_true)
      [] value.t = "array" ->
            LET first == IF Len(value.a) > 0 /\ value.a[1] \notin { JSBool(FALSE), JSNum(0) }
                         THEN stringValue_FalsyFirst(value.a[1]) ELSE None
            IN IF Truthy(first) THEN first ELSE Some(S_true)
      [] value.t = "object" -> Some(S_true)
      [] OTHER -> None

\* stringValue with the number 0 coerced to the empty string
RECURSIVE stringValue_ZeroEmpty(_)
stringValue_ZeroEmpty(value) ==
    CASE value.t = "string" -> Some(value.s)
      [] value.t = "number" -> Some(IF value.n = 0 THEN <<>> ELSE NumToString(value.n))
      [] value.t = "boolean" -> Some(IF value.b THEN S_true ELSE S_false)
      [] value.t = "null" -> Some(S_true)
      [] value.t = "array" ->
            LET first == IF Len(value.a) > 0 THEN stringValue_ZeroEmpty(value.a[1]) ELSE None
            IN IF Truthy(first) THEN first ELSE Some(S_true)
      [] value.t = "object" -> Some(S_true)
      [] OTHER -> None

\* stringValue(value): the coercion of a context value to a string
RECURSIVE stringValue(_)
stringValue(value) ==
    CASE value.t = "string" -> Some(value.s)
      [] value.t = "number" -> Some(NumToString(value.n))
      [] value.t = "boolean" -> Some(IF value.b THEN S_true ELSE S_false)
      [] value.t = "null" -> Some(S_true)
      [] value.t = "array" ->
            LET first == IF Len(value.a) > 0 THEN stringValue(value.a[1]) ELSE None
            IN IF Truthy(first) THEN first ELSE Some(S_true)
      [] value.t = "object" -> Some(S_true)
      [] OTHER -> None

S___proto__ == <<"_", "_", "p", "r", "o", "t", "o", "_", "_">>

\* what a plain object yields for a key it does not own: its prototype for
\* __proto__, undefined otherwise (the other members of Object.prototype are
\* functions, which stringValue maps to undefined as well)
Inherited(key) == IF key = S___proto__ THEN JSObj ELSE JSUndefined

\* properties[feature]
PropertyOf(props, key) ==
    IF key \in DOMAIN props THEN props[key] ELSE Inherited(key)

-----------------------------------------------------------------------------
(* Tokens and expressions *)

Token(kind, txt, sv) == [kind |-> kind, text |-> txt, stringValue |-> sv]

Expression(featureToken, constantToken, not) ==
    [featureToken |-> featureToken, constantToken |-> constantToken, not |-> not]

\* Expression.feature
Feature(e) == e.featureToken.text

\* Expression.constant: constantToken?.stringValue || constantToken?.text || undefined
Constant(e) ==
    IF ~IsSome(e.constantToken) THEN None
    ELSE IF Truthy(e.constantToken[1].stringValue) THEN e.constantToken[1].stringValue
    ELSE IF e.constantToken[1].text # <<>> THEN Some(e.constantToken[1].text)
    ELSE None

\* QueryList.isValid
IsValid(ql) == ~IsSome(ql.error)

\* ExpressionMatches with the negated, no-value branch inverted
\* (`constant` tested in place of `!constant`)
ExpressionMatches_NegatedAbsentFlipped(expression, props) ==
    LET constant == Constant(expression)
        contextValue == stringValue(PropertyOf(props, Feature(expression)))
    IN IF expression.not
       THEN IF Truthy(contextValue)
            THEN \/ Truthy(constant) /\ contextValue # constant
                 \/ ~Truthy(constant) /\ contextValue = Some(S_false)
            ELSE Truthy(constant) \/ contextValue = Some(S_false)
       ELSE IF Truthy(contextValue)
            THEN \/ contextValue = constant
                 \/ contextValue # Some(S_false) /\ ~Truthy(constant)
            ELSE constant = Some(S_false)

\* ExpressionMatches with the non-negated, no-value branch inverted
\* (`constant !== 'false'` in place of `constant === 'false'`)
ExpressionMatches_AbsentFlipped(expression, props) ==
    LET constant == Constant(expression)
        contextValue == stringValue(PropertyOf(props, Feature(expression)))
    IN IF expression.not
       THEN IF Truthy(contextValue)
            THEN \/ Truthy(constant) /\ contextValue # constant
                 \/ ~Truthy(constant) /\ contextValue = Some(S_false)
            ELSE ~Truthy(constant) \/ contextValue = Some(S_false)
       ELSE IF Truthy(contextValue)
            THEN \/ contextValue = constant
                 \/ contextValue # Some(S_false) /\ ~Truthy(constant)
            ELSE constant # Some(S_false)

\* ExpressionMatches with the negated comparison of a present value inverted
\* (`contextValue === constant` in place of `contextValue !== constant`)
ExpressionMatches_NegatedCompareFlipped(expression, props) ==
    LET constant == Constant(expression)
        contextValue == stringValue(PropertyOf(props, Feature(expression)))
    IN IF expression.not
       THEN IF Truthy(contextValue)
            THEN \/ Truthy(constant) /\ contextValue = constant
                 \/ ~Truthy(constant) /\ contextValue = Some(S_false)
            ELSE ~Truthy(constant) \/ contextValue = Some(S_false)
       ELSE IF Truthy(contextValue)
            THEN \/ contextValue = constant
                 \/ contextValue # Some(S_false) /\ ~Truthy(constant)
            ELSE constant = Some(S_false)

\* The body of the inner loop of QueryList.match: TRUE when the code reaches a
\* `continue` (the expression matches), FALSE when it reaches `continue queries`.
ExpressionMatches(expression, props) ==
    LET constant == Constant(expression)
        contextValue == stringValue(PropertyOf(props, Feature(expression)))
    IN IF expression.not
       THEN IF Truthy(contextValue)
            THEN \/ Truthy(constant) /\ contextValue # constant
                 \/ ~Truthy(constant) /\ contextValue = Some(S_false)
            ELSE ~Truthy(constant) \/ contextValue = Some(S_false)
       ELSE IF Truthy(contextValue)
            THEN \/ contextValue = constant
                 \/ contextValue # Some(S_false) /\ ~Truthy(constant)
            ELSE constant = Some(S_false)

\* the inner for loop over query.expressions, from expression i on
RECURSIVE QueryMatchesFrom(_, _, _)
QueryMatchesFrom(expressions, i, props) ==
    IF i > Len(expressions) THEN TRUE
    ELSE IF ExpressionMatches(expressions[i], props)
         THEN QueryMatchesFrom(expressions, i + 1, props)
         ELSE FALSE

\* the outer loop leaving at the first query that does not match
\* (`break queries` in place of `continue queries`)
QueriesMatchFrom_StopAtFirstQuery(queries, q, props) ==
    IF q > Len(queries) THEN FALSE
    ELSE QueryMatchesFrom(queries[q], 1, props)

\* the outer loop `queries:` over this.queries, from query q on
RECURSIVE QueriesMatchFrom(_, _, _)
QueriesMatchFrom(queries, q, props) ==
    IF q > Len(queries) THEN FALSE
    ELSE IF QueryMatchesFrom(queries[q], 1, props) THEN TRUE
         ELSE QueriesMatchFrom(queries, q + 1, props)

\* QueryList.match(properties)
QueryListMatch(ql, props) ==
    IF IsValid(ql) THEN QueriesMatchFrom(ql.queries, 1, props) ELSE FALSE

-----------------------------------------------------------------------------
(* Character classes (mediaquery/character-codes) *)

\* the value of charCodeAt past the end of the text
NaN == "NaN"

LowerLetters ==
    { "a", "b", "c", "d", "e", "f", "g", "h", "i", "j", "k", "l", "m",
      "n", "o", "p", "q", "r", "s", "t", "u", "v", "w", "x", "y", "z" }

UpperLetters ==
    { "A", "B", "C", "D", "E", "F", "G", "H", "I", "J", "K", "L", "M",
      "N", "O", "P", "Q", "R", "S", "T", "U", "V", "W", "X", "Y", "Z" }

Digits == { "0", "1", "2", "3", "4", "5", "6", "7", "8", "9" }

isDigit(ch) == ch \in Digits

isHexDigit(ch) ==
    ch \in Digits \cup { "a", "b", "c", "d", "e", "f", "A", "B", "C", "D", "E", "F" }

isBinaryDigit(ch) == ch \in { "0", "1" }

isIdentifierStart(ch) == ch \in LowerLetters \cup UpperLetters \cup { "$", "_" }

isIdentifierPart(ch) == isIdentifierStart(ch) \/ isDigit(ch)

isLineBreak(ch) == ch \in { "\n", "\r" }

isWhiteSpaceSingleLine(ch) == ch \in { " ", "\t" }

\* the number of UTF-16 code units of a character: 1 for every character of
\* the basic plane, and for NaN
sizeOf(ch) == 1

-----------------------------------------------------------------------------
(* The scanner (mediaquery/scanner.js) *)

mergeConflictMarkerLength == 7

\* Scanner.tabWidth
tabWidth == 2

Min(a, b) == IF a < b THEN a ELSE b

\* text.charCodeAt(offset)
CharAt(txt, offset) ==
    IF offset >= 0 /\ offset < Len(txt) THEN txt[offset + 1] ELSE NaN

\* text.substring(from, to)
Substring(txt, from, to) == SubSeq(txt, from + 1, Min(to, Len(txt)))

\* text.substr(from, length)
Substr(txt, from, length) == Substring(txt, from, from + length)

\* The scanner's private state and current token.  The look-ahead buffer
\* (#ch, #chNext, #chNextNext) always holds the characters at #offset,
\* #offset + 1 and #offset + 2, every character being one code unit wide.
NewScanner ==
    [ offset |-> 0, line |-> 0, column |-> 0,
      map |-> << [offset |-> 0, column |-> 0, line |-> 0] >>,
      tokOffset |-> None, kind |-> None, text |-> None, stringValue |-> None,
      tabWidth |-> tabWidth ]

Ch(txt, c) == CharAt(txt, c.offset)

ChNext(txt, c) == CharAt(txt, c.offset + sizeOf(Ch(txt, c)))

ChNextNext(txt, c) ==
    CharAt(txt, c.offset + sizeOf(Ch(txt, c)) + sizeOf(ChNext(txt, c)))

\* Scanner.eof
Eof(txt, c) == c.offset > Len(txt)

\* Scanner.markPosition
markPosition(c) ==
    [c EXCEPT !.map = Append(@, [offset |-> c.offset, column |-> c.column, line |-> c.line])]

\* the binary search of Scanner.positionFromOffset over the position map
\* (first and last are the zero-based end points); the search ends without a
\* position when it steps below the first entry
RECURSIVE positionSearch(_, _, _, _, _)
positionSearch(map, offset, first, last, position) ==
    IF first > last
    THEN IF "offset" \in DOMAIN position
         THEN [line |-> position.line,
               column |-> position.column + (offset - position.offset)]
         ELSE [typeError |-> TRUE]
    ELSE LET middle == (first + last) \div 2
             found == map[middle + 1]
         IN IF found.offset = offset
            THEN [line |-> found.line, column |-> found.column]
            ELSE IF found.offset < offset
                 THEN positionSearch(map, offset, middle + 1, last, found)
                 ELSE positionSearch(map, offset, first, middle - 1,
                                     IF middle - 1 >= 0 THEN map[middle]
                                     ELSE [typeError |-> TRUE])

\* Scanner.positionFromOffset(offset)
positionFromOffset(txt, c, offset) ==
    IF offset < 0 \/ offset > Len(txt)
    THEN [line |-> 0, column |-> 0]
    ELSE positionSearch(c.map, offset, 0, Len(c.map) - 1,
                        [line |-> 0, column |-> 0, offset |-> 0])

\* Scanner.position: the position of the current token
position(txt, c) == positionFromOffset(txt, c, c.tokOffset[1])

\* new MediaQueryError(message, line, column); reading the line of a missing
\* position raises a TypeError in its place
MediaQueryError(message, p) ==
    IF "line" \in DOMAIN p
    THEN [message |-> message, line |-> p.line, column |-> p.column]
    ELSE [message |-> "TypeError"]

\* Scanner.widthOfCh
widthOfCh(txt, c) ==
    IF Ch(txt, c) = "\t"
    THEN (IF c.column % c.tabWidth # 0 THEN c.column % c.tabWidth ELSE c.tabWidth)
    ELSE 1

\* Scanner.advance(count) for count 1 and 2: the offset moves by the sizes of
\* the characters passed
advance(txt, c, count) ==
    IF count = 1 THEN [c EXCEPT !.offset = @ + sizeOf(Ch(txt, c))]
    ELSE [c EXCEPT !.offset = @ + sizeOf(Ch(txt, c)) + sizeOf(ChNext(txt, c))]

\* the outcomes of a call of scan(): it returned, it threw, or it entered the
\* skip loop of advance(count) with count >= 3
Returned(c) == [status |-> "ok", cursor |-> c]

Threw(c, message) == [status |-> "throw", cursor |-> c, error |-> message]

Advancing(c, kind, count) ==
    [status |-> "advance", cursor |-> c, kind |-> kind, count |-> count]

\* Scanner.next(token, count)
next(txt, c, token, count) ==
    IF count >= 3 THEN Advancing(c, token, count)
    ELSE LET moved == advance(txt, c, count)
         IN Returned([moved EXCEPT !.text = Some(Substr(txt, c.offset, moved.offset - c.offset)),
                                   !.column = @ + count,
                                   !.kind = Some(token)])

\* Scanner.newLine(count)
newLine(txt, c, count) ==
    LET moved == [c EXCEPT !.offset = @ + count]
    IN Returned(markPosition([moved EXCEPT !.text = Some(Substr(txt, c.offset, count)),
                                            !.line = @ + 1,
                                            !.column = 0,
                                            !.kind = Some("NewLine")]))

\* Scanner.isConflictMarker
isConflictMarker(txt, c) ==
    /\ c.offset = 0 \/ isLineBreak(CharAt(txt, c.offset - 1))
    /\ c.offset + mergeConflictMarkerLength < Len(txt)
    /\ \A i \in 0..(mergeConflictMarkerLength - 1) : CharAt(txt, c.offset + i) = Ch(txt, c)
    /\ \/ Ch(txt, c) = "="
       \/ CharAt(txt, c.offset + mergeConflictMarkerLength) = " "

\* the do-while loop of Scanner.scanWhitespace
RECURSIVE whitespaceLoop(_, _)
whitespaceLoop(txt, c) ==
    LET moved == advance(txt, [c EXCEPT !.column = @ + widthOfCh(txt, c)], 1)
    IN IF isWhiteSpaceSingleLine(Ch(txt, moved)) THEN whitespaceLoop(txt, moved) ELSE moved

\* Scanner.scanWhitespace
scanWhitespace(txt, c) ==
    LET after == markPosition(whitespaceLoop(txt, markPosition(c)))
    IN Returned([after EXCEPT !.text = Some(Substring(txt, c.tokOffset[1], after.offset)),
                              !.kind = Some("Whitespace")])

\* the flags the closure handed to scanUntil by scanString keeps
NoFlags == [isEscaping |-> FALSE, escaped |-> FALSE, crlf |-> FALSE]

\* the predicate handed to scanUntil: by scanIdentifier, scanHexNumber,
\* scanBinaryNumber and scanString (which updates its flags)
untilPredicate(mode, quote, flags, ch, chNext) ==
    CASE mode = "identifier" -> [stop |-> ~isIdentifierPart(ch), flags |-> flags]
      [] mode = "hex" -> [stop |-> ~isHexDigit(ch), flags |-> flags]
      [] mode = "binary" -> [stop |-> ~isBinaryDigit(ch), flags |-> flags]
      [] OTHER ->
            IF flags.isEscaping
            THEN [stop |-> FALSE, flags |-> [flags EXCEPT !.isEscaping = FALSE]]
            ELSE IF ch = "\\"
            THEN [stop |-> FALSE,
                  flags |-> [flags EXCEPT !.isEscaping = TRUE, !.escaped = TRUE]]
            ELSE IF ch = "\r"
            THEN [stop |-> FALSE,
                  flags |-> [flags EXCEPT !.crlf = @ \/ chNext = "\n"]]
            ELSE [stop |-> ch = quote, flags |-> flags]

\* the do-while loop of Scanner.scanUntil
RECURSIVE scanUntilLoop(_, _, _, _, _, _)
scanUntilLoop(txt, c, mode, quote, expectedClose, flags) ==
    LET condition(moved) ==
            IF Eof(txt, moved)
            THEN [status |-> IF expectedClose THEN "throw" ELSE "ok",
                  cursor |-> moved, flags |-> flags]
            ELSE LET again(p) ==
                         IF p.stop
                         THEN [status |-> "ok", cursor |-> moved, flags |-> p.flags]
                         ELSE scanUntilLoop(txt, moved, mode, quote, expectedClose, p.flags)
                 IN again(untilPredicate(mode, quote, flags, Ch(txt, moved), ChNext(txt, moved)))
    IN condition(
          IF isLineBreak(Ch(txt, c))
          THEN markPosition(
                  [advance(txt, c, IF Ch(txt, c) = "\r" /\ ChNext(txt, c) = "\n" THEN 2 ELSE 1)
                      EXCEPT !.line = @ + 1, !.column = 0])
          ELSE advance(txt, [c EXCEPT !.column = @ + widthOfCh(txt, c)], 1))

\* Scanner.scanUntil(predicate, expectedClose, consumeClose): the cursor after
\* it, the text scanned, and the predicate's flags
scanUntil(txt, c, mode, quote, expectedClose, consumeClose) ==
    LET close(r) ==
            IF r.status = "throw" THEN r
            ELSE LET scanned(after) ==
                         [status |-> "ok", cursor |-> after, flags |-> r.flags,
                          text |-> Substring(txt, c.offset, after.offset)]
                 IN scanned(markPosition(IF consumeClose > 0
                                         THEN advance(txt, r.cursor, consumeClose)
                                         ELSE r.cursor))
    IN close(scanUntilLoop(txt, c, mode, quote, expectedClose, NoFlags))

S_not == <<"n", "o", "t">>

S_NOT == <<"N", "O", "T">>

S_and == <<"a", "n", "d">>

S_AND == <<"A", "N", "D">>

\* keywords.get(text) ?? Kind.Identifier
keywords(txt) ==
    CASE txt = S_NOT \/ txt = S_not -> "NotKeyword"
      [] txt = S_AND \/ txt = S_and -> "AndKeyword"
      [] txt = S_true \/ txt = S_false -> "BooleanLiteral"
      [] OTHER -> "Identifier"

\* Scanner.scanIdentifier
scanIdentifier(txt, c) ==
    LET token(r) ==
            Returned([r.cursor EXCEPT !.text = Some(r.text), !.kind = Some(keywords(r.text))])
    IN token(scanUntil(txt, c, "identifier", NaN, FALSE, 0))

\* Scanner.scanDigits: the cursor after the digits
RECURSIVE scanDigits(_, _)
scanDigits(txt, c) ==
    IF isDigit(Ch(txt, c)) THEN scanDigits(txt, advance(txt, c, 1)) ELSE c

\* Scanner.scanNumber
scanNumber(txt, c) ==
    LET c1 == scanDigits(txt, c)
        main == Substring(txt, c.offset, c1.offset)
        hasDot == Ch(txt, c1) = "."
        c2 == IF hasDot THEN scanDigits(txt, advance(txt, c1, 1)) ELSE c1
        decimal == IF hasDot THEN Substring(txt, c1.offset + 1, c2.offset) ELSE <<>>
        hasExp == Ch(txt, c2) \in { "E", "e" }
        c3 == IF hasExp THEN scanDigits(txt, advance(txt, c2, 1)) ELSE c2
        scientific == IF hasExp THEN Substring(txt, c2.offset + 1, c3.offset) ELSE <<>>
        numberText ==
            IF scientific # <<>>
            THEN (IF decimal # <<>>
                  THEN main \o <<".">> \o decimal \o <<"e">> \o scientific
                  ELSE main \o <<"e">> \o scientific)
            ELSE (IF decimal # <<>> THEN main \o <<".">> \o decimal ELSE main)
    IN IF hasExp /\ ~isDigit(ChNext(txt, c2))
       THEN Threw(c2, "ParseError: Digit expected (0-9)")
       ELSE Returned([c3 EXCEPT !.text = Some(numberText),
                                !.column = @ + (c3.offset - c.offset),
                                !.kind = Some("NumericLiteral")])

\* Scanner.scanHexNumber
scanHexNumber(txt, c) ==
    LET token(r) ==
            IF r.status = "throw"
            THEN Threw(r.cursor, "Unexpected end of file while searching for 'Hex Digit'")
            ELSE Returned([r.cursor EXCEPT !.text = Some(<<"0", "x">> \o r.text),
                                           !.kind = Some("NumericLiteral")])
    IN IF ~isHexDigit(ChNextNext(txt, c))
       THEN Threw(c, "ParseError: Hex Digit expected (0-F,0-f)")
       ELSE token(scanUntil(txt, advance(txt, c, 2), "hex", NaN, TRUE, 0))

\* Scanner.scanBinaryNumber
scanBinaryNumber(txt, c) ==
    LET token(r) ==
            IF r.status = "throw"
            THEN Threw(r.cursor, "Unexpected end of file while searching for 'Binary Digit'")
            ELSE Returned([r.cursor EXCEPT !.text = Some(<<"0", "b">> \o r.text),
                                           !.kind = Some("NumericLiteral")])
    IN IF ~isBinaryDigit(ChNextNext(txt, c))
       THEN Threw(c, "ParseError: Binary Digit expected (0,1)")
       ELSE token(scanUntil(txt, advance(txt, c, 2), "binary", NaN, TRUE, 0))

\* value.replace(/\r\n/g, '\n')
RECURSIVE normalizeCrLf(_)
normalizeCrLf(value) ==
    IF Len(value) = 0 THEN <<>>
    ELSE IF Len(value) >= 2 /\ value[1] = "\r" /\ value[2] = "\n"
         THEN <<"\n">> \o normalizeCrLf(SubSeq(value, 3, Len(value)))
         ELSE <<value[1]>> \o normalizeCrLf(SubSeq(value, 2, Len(value)))

\* the backtick character
Backtick == "backtick"

EscapeChars == { "r", "n", "t", "'", "\"", "\\", Backtick }

unescaped(ch) ==
    CASE ch = "r" -> "\r" [] ch = "n" -> "\n" [] ch = "t" -> "\t" [] OTHER -> ch

\* Scanner.unescapeString: <<>> when it throws (an invalid escape sequence),
\* <<value>> otherwise
RECURSIVE unescapeString(_)
unescapeString(value) ==
    IF Len(value) = 0 THEN Some(<<>>)
    ELSE IF value[1] # "\\"
         THEN LET rest == unescapeString(SubSeq(value, 2, Len(value)))
              IN IF IsSome(rest) THEN Some(<<value[1]>> \o rest[1]) ELSE None
         ELSE IF Len(value) >= 2 /\ value[2] \in EscapeChars
              THEN LET rest == unescapeString(SubSeq(value, 3, Len(value)))
                   IN IF IsSome(rest) THEN Some(<<unescaped(value[2])>> \o rest[1]) ELSE None
              ELSE None

\* the message of the assertion of scanUntil at the end of the text
UnexpectedEndOfFile(expectedClose) ==
    "Unexpected end of file while searching for '" \o expectedClose \o "'"

\* scanString with no closing quote expected: the end of the text ends the
\* literal
scanString_NoClose(txt, c) ==
    LET quoteLength == 1
        literal(r) ==
            IF r.status = "throw"
            THEN Threw(r.cursor, UnexpectedEndOfFile(Ch(txt, c)))
            ELSE LET token(value) ==
                         IF ~IsSome(value)
                         THEN Threw(r.cursor, "Invalid escape sequence")
                         ELSE Returned([r.cursor EXCEPT !.text = Some(r.text),
                                                        !.stringValue = value,
                                                        !.kind = Some("StringLiteral")])
                     unescape(value) ==
                         IF r.flags.escaped THEN unescapeString(value) ELSE Some(value)
                     normalize(value) ==
                         IF r.flags.crlf THEN normalizeCrLf(value) ELSE value
                 IN token(unescape(normalize(
                        SubSeq(r.text, quoteLength + 1, Len(r.text) - quoteLength))))
    IN literal(scanUntil(txt, c, "string", Ch(txt, c), FALSE, quoteLength))

\* Scanner.scanString
scanString(txt, c) ==
    LET quoteLength == 1
        literal(r) ==
            IF r.status = "throw"
            THEN Threw(r.cursor, UnexpectedEndOfFile(Ch(txt, c)))
            ELSE LET token(value) ==
                         IF ~IsSome(value)
                         THEN Threw(r.cursor, "Invalid escape sequence")
                         ELSE Returned([r.cursor EXCEPT !.text = Some(r.text),
                                                        !.stringValue = value,
                                                        !.kind = Some("StringLiteral")])
                     unescape(value) ==
                         IF r.flags.escaped THEN unescapeString(value) ELSE Some(value)
                     normalize(value) ==
                         IF r.flags.crlf THEN normalizeCrLf(value) ELSE value
                 IN token(unescape(normalize(
                        SubSeq(r.text, quoteLength + 1, Len(r.text) - quoteLength))))
    IN literal(scanUntil(txt, c, "string", Ch(txt, c), TRUE, quoteLength))

\* Scanner.scan(): the switch on the current character
scan(txt, cur) ==
    LET c == [cur EXCEPT !.tokOffset = Some(cur.offset), !.stringValue = None]
        ch == Ch(txt, c)
        chNext == ChNext(txt, c)
        chNextNext == ChNextNext(txt, c)
    IN IF Eof(txt, c)
       THEN Returned([c EXCEPT !.text = Some(<<>>), !.kind = Some("EndOfFile")])
       ELSE CASE ch = "\r" -> newLine(txt, c, IF chNext = "\n" THEN 2 ELSE 1)
              [] ch = "\n" -> newLine(txt, c, 1)
              [] ch = "\t" \/ ch = " " -> scanWhitespace(txt, c)
              [] ch = "(" -> next(txt, c, "OpenParen", 1)
              [] ch = ")" -> next(txt, c, "CloseParen", 1)
              [] ch = "," -> next(txt, c, "Comma", 1)
              [] ch = ":" -> next(txt, c, "Colon", 1)
              [] ch = "." ->
                    IF isDigit(chNext) THEN scanNumber(txt, c)
                    ELSE IF chNext = "." /\ chNextNext = "."
                         THEN next(txt, c, "Elipsis", 3)
                         ELSE next(txt, c, "Dot", 1)
              [] ch = "0" ->
                    IF chNext = "x" \/ chNext = "X" THEN scanHexNumber(txt, c)
                    ELSE IF chNext = "B" \/ chNext = "B" THEN scanBinaryNumber(txt, c)
                    ELSE scanNumber(txt, c)
              [] ch \in Digits \ { "0" } -> scanNumber(txt, c)
              [] ch = "<" ->
                    IF isConflictMarker(txt, c)
                    THEN next(txt, c, "ConflictMarker", mergeConflictMarkerLength)
                    ELSE IF chNext = "<"
                         THEN (IF chNextNext = "="
                               THEN next(txt, c, "LessThanLessThanEquals", 3)
                               ELSE next(txt, c, "LessThanLessThan", 2))
                         ELSE (IF chNext = "="
                               THEN next(txt, c, "LessThanEquals", 2)
                               ELSE next(txt, c, "LessThan", 1))
              [] ch = ">" ->
                    IF isConflictMarker(txt, c)
                    THEN next(txt, c, "ConflictMarker", mergeConflictMarkerLength)
                    ELSE next(txt, c, "GreaterThan", 1)
              [] ch = "=" ->
                    IF isConflictMarker(txt, c)
                    THEN next(txt, c, "ConflictMarker", mergeConflictMarkerLength)
                    ELSE IF chNext = "="
                         THEN (IF chNextNext = "="
                               THEN next(txt, c, "EqualsEqualsEquals", 3)
                               ELSE next(txt, c, "EqualsEquals", 2))
                         ELSE (IF chNext = ">"
                               THEN next(txt, c, "EqualsArrow", 2)
                               ELSE next(txt, c, "Equals", 1))
              [] ch = "'" \/ ch = "\"" \/ ch = Backtick -> scanString(txt, c)
              [] OTHER ->
                    IF isIdentifierStart(ch) THEN scanIdentifier(txt, c)
                    ELSE next(txt, c, "Unknown", 1)

-----------------------------------------------------------------------------
(* The registry index (registries/indexer.js): values and comparisons *)

S_x == <<"x">>

S_y == <<"y">>

S_ax == <<"a", "/", "x">>

S_bx == <<"b", "/", "x">>

S_xy == <<"x", " ", "y">>

S_100 == <<"1", ".", "0", ".", "0">>

S_200 == <<"2", ".", "0", ".", "0">>

\* the collation order of the characters that occur in indexed values
Collation ==
    <<" ", "_", ".", "*", "/", "+", "0", "1", "2", "3", "4", "5", "6", "7", "8", "9",
      "a", "b", "c", "d", "e", "f", "g", "h", "i", "j", "k", "l", "m",
      "n", "o", "p", "q", "r", "s", "t", "u", "v", "w", "x", "y", "z">>

Rank(ch) == CHOOSE i \in DOMAIN Collation : Collation[i] = ch

\* a.localeCompare(b): -1, 0 or 1
RECURSIVE localeCompare(_, _)
localeCompare(a, b) ==
    IF a = <<>> /\ b = <<>> THEN 0
    ELSE IF a = <<>> THEN 0 - 1
    ELSE IF b = <<>> THEN 1
    ELSE IF Rank(a[1]) < Rank(b[1]) THEN 0 - 1
    ELSE IF Rank(a[1]) > Rank(b[1]) THEN 1
    ELSE localeCompare(Tail(a), Tail(b))

\* StringKey.compare
StringCompare(a, b) ==
    IF a # <<>> /\ b # <<>> THEN localeCompare(a, b)
    ELSE IF a # <<>> THEN 1
    ELSE IF b # <<>> THEN 0 - 1
    ELSE 0

\* a SemVer object: its numeric components and its build metadata
SemVer(major, minor, patch, build) ==
    [major |-> major, minor |-> minor, patch |-> patch, build |-> build]

DigitValue(ch) == (CHOOSE i \in 0..9 : DigitChar(i) = ch)

\* new SemVer(text), for versions whose components have one digit:
\* <<>> when the constructor throws
ParseSemVer(s) ==
    IF /\ Len(s) >= 5
       /\ isDigit(s[1]) /\ s[2] = "." /\ isDigit(s[3]) /\ s[4] = "." /\ isDigit(s[5])
       /\ Len(s) = 5 \/ (Len(s) > 6 /\ s[6] = "+")
    THEN Some(SemVer(DigitValue(s[1]), DigitValue(s[3]), DigitValue(s[5]),
                     SubSeq(s, 7, Len(s))))
    ELSE None

\* SemVer.toString(): the version without its build metadata
SemVerToString(v) ==
    NatToString(v.major) \o <<".">> \o NatToString(v.minor) \o <<".">> \o NatToString(v.patch)

\* SemVer.compare: build metadata is ignored
SemVerCompare(a, b) ==
    IF a.major # b.major THEN (IF a.major < b.major THEN 0 - 1 ELSE 1)
    ELSE IF a.minor # b.minor THEN (IF a.minor < b.minor THEN 0 - 1 ELSE 1)
    ELSE IF a.patch # b.patch THEN (IF a.patch < b.patch THEN 0 - 1 ELSE 1)
    ELSE 0

\* the kinds of key: StringKey, IdentityKey (a StringKey), SemverKey
compare(kind, a, b) ==
    IF kind = "semver" THEN SemVerCompare(a, b) ELSE StringCompare(a, b)

\* Key.coerce(value) for a string value: <<>> when it throws
coerce(kind, value) ==
    IF kind = "semver" THEN ParseSemVer(value) ELSE Some(value)

\* key.toString()
KeyToString(kind, k) == IF kind = "semver" THEN SemVerToString(k) ELSE k

\* \w of a regular expression
isWordChar(ch) == ch \in LowerLetters \cup UpperLetters \cup Digits \cup { "_" }

\* the longest prefix of s made of word characters (word = TRUE) or of
\* non-word characters (word = FALSE)
RECURSIVE RunLength(_, _)
RunLength(s, word) ==
    IF s = <<>> \/ isWordChar(s[1]) # word THEN 0 ELSE 1 + RunLength(Tail(s), word)

\* text.split(/(\W+)/g): runs of word characters, at the odd positions, and
\* the separators between them
RECURSIVE SplitRuns(_, _)
SplitRuns(s, word) ==
    IF s = <<>> THEN (IF word THEN << <<>> >> ELSE <<>>)
    ELSE << SubSeq(s, 1, RunLength(s, word)) >>
            \o SplitRuns(SubSeq(s, RunLength(s, word) + 1, Len(s)), ~word)

\* words.slice(from, to + 1).join('')
RECURSIVE JoinRuns(_, _, _)
JoinRuns(runs, from, to) ==
    IF from > to THEN <<>> ELSE runs[from] \o JoinRuns(runs, from + 1, to)

\* the words Key.addWord indexes for a value: every run of consecutive words
\* with the separators between them, unless it is empty or holds a space
WordsOf(s) ==
    { w \in { JoinRuns(SplitRuns(s, TRUE), i, j) :
                i \in { n \in DOMAIN SplitRuns(s, TRUE) : n % 2 = 1 },
                j \in { n \in DOMAIN SplitRuns(s, TRUE) : n % 2 = 1 } } :
        w # <<>> /\ \A p \in DOMAIN w : w[p] # " " }

\* value.split('/')
RECURSIVE SplitSlash(_)
SplitSlash(s) ==
    IF \A p \in DOMAIN s : s[p] # "/" THEN << s >>
    ELSE LET first == CHOOSE p \in DOMAIN s : s[p] = "/" /\ \A q \in 1..(p - 1) : s[q] # "/"
         IN << SubSeq(s, 1, first - 1) >> \o SplitSlash(SubSeq(s, first + 1, Len(s)))

\* v.slice(p).join('/')
RECURSIVE JoinSlash(_, _)
JoinSlash(parts, p) ==
    IF p > Len(parts) THEN <<>>
    ELSE IF p = Len(parts) THEN parts[p]
    ELSE parts[p] \o <<"/">> \o JoinSlash(parts, p + 1)

\* the first n segments of the parts, joined by '/'
RECURSIVE JoinLeading(_, _)
JoinLeading(parts, n) ==
    IF n <= 0 \/ parts = <<>> THEN <<>>
    ELSE IF n = 1 \/ Len(parts) = 1 THEN parts[1]
    ELSE parts[1] \o <<"/">> \o JoinLeading(Tail(parts), n - 1)

\* a mutation of shortName: the first n segments of a path
shortName_LeadingSegments(value, n) == JoinLeading(SplitSlash(value), n)

\* shortName(value, n): the last n segments of a path
shortName(value, n) ==
    JoinSlash(SplitSlash(value), IF Len(SplitSlash(value)) - n < 0 THEN 1
                                 ELSE Len(SplitSlash(value)) - n + 1)

-----------------------------------------------------------------------------
(* The registry index: keys, schema and index *)

\* The schema that is indexed: an identity key, a version key and a text key,
\* in the order of their declaration
KeyNames == <<"id", "version", "summary">>

KindOf(k) ==
    CASE k = "id" -> "identity" [] k = "version" -> "semver" [] OTHER -> "string"

\* the accessor of key k: the field of that name
Accessor(k, graph) == graph[k]

\* `if (value)` on what an accessor returns: a string or a SemVer object
HasValue(kind, value) == kind = "semver" \/ value # <<>>

\* A sorted map (values, words, identities) is a function from its keys to
\* the Set objects it holds; a Set object is a position in the heap.
\* The keys of map m that compare equal to k (at most one)
Find(kind, m, k) == { e \in DOMAIN m : compare(kind, e, k) = 0 }

\* map.get(k): <<>> when there is no such key
MapGet(kind, m, k) ==
    IF Find(kind, m, k) = {} THEN None
    ELSE Some(m[CHOOSE e \in Find(kind, m, k) : TRUE])

\* map.set(k, v)
MapSet(kind, m, k, v) ==
    IF Find(kind, m, k) = {}
    THEN [x \in DOMAIN m \cup { k } |-> IF x = k THEN v ELSE m[x]]
    ELSE [m EXCEPT ![CHOOSE e \in Find(kind, m, k) : TRUE] = v]

\* the ids of an optional Set object: `matches || []`
IdsOf(heapNow, ref) == IF IsSome(ref) THEN heapNow[ref[1]] ELSE {}

\* new Key(...)
NewKey == [values |-> <<>>, words |-> <<>>, identities |-> <<>>, idShortName |-> <<>>]

\* new indexConstructor(index)
NewSchema ==
    [keys |-> [k \in { KeyNames[i] : i \in DOMAIN KeyNames } |-> NewKey],
     selectedElements |-> None]

\* Key.addKey, and the body of the loops of Key.addWord: id n is added to the
\* Set that map `field` holds for `each`, which is created if missing.
\* st is the heap and the key object.
addKey(st, field, kind, each, n) ==
    IF IsSome(MapGet(kind, st.key[field], each))
    THEN [st EXCEPT !.heap[MapGet(kind, st.key[field], each)[1]] = @ \cup { n }]
    ELSE [heap |-> Append(st.heap, { n }),
          key |-> [st.key EXCEPT ![field] = MapSet(kind, @, each, Len(st.heap) + 1)]]

RECURSIVE addWords(_, _, _)
addWords(st, ws, n) ==
    IF ws = {} THEN st
    ELSE addWords(addKey(st, "words", "string", CHOOSE w \in ws : TRUE, n),
                  ws \ { CHOOSE w \in ws : TRUE }, n)

\* Key.addWord; SemverKey.addWord does nothing
addWord(st, kind, each, n) ==
    IF kind = "semver" THEN st ELSE addWords(st, WordsOf(KeyToString(kind, each)), n)

\* a mutation of Key.insert: the id is one more than the position of the
\* target
KeyInsert_NextId(st, kind, value, n) ==
    IF HasValue(kind, value)
    THEN addWord(addKey(st, "values", kind, value, n + 1), kind, value, n + 1)
    ELSE st

\* Key.insert and Key.insertKey for one value
KeyInsert(st, kind, value, n) ==
    IF HasValue(kind, value)
    THEN addWord(addKey(st, "values", kind, value, n), kind, value, n)
    ELSE st

\* Index.insert: the loop over the keys, from the i-th on
RECURSIVE insertKeys(_, _, _, _, _)
insertKeys(heapNow, keys, i, graph, n) ==
    IF i > Len(KeyNames) THEN [heap |-> heapNow, keys |-> keys]
    ELSE LET inserted(st) ==
                 insertKeys(st.heap, [keys EXCEPT ![KeyNames[i]] = st.key], i + 1, graph, n)
         IN inserted(KeyInsert([heap |-> heapNow, key |-> keys[KeyNames[i]]],
                               KindOf(KeyNames[i]), Accessor(KeyNames[i], graph), n))

\* IdentityKey.doneInsertion: identities.set and idShortName.set for the ids
\* whose short name is unique
RECURSIVE keepShortNames(_, _, _)
keepShortNames(key, ids, n) ==
    IF ids = {} THEN key
    ELSE LET kept(id) ==
                 keepShortNames(
                     [key EXCEPT !.identities = MapSet("string", @, shortName(id, n), key.values[id]),
                                 !.idShortName = MapSet("string", @, id, shortName(id, n))],
                     ids \ { id }, n)
         IN kept(CHOOSE id \in ids : TRUE)

\* a mutation of the rounds: every pending id keeps its short name of n
\* segments, shared or not
shortNameRounds_KeepShared(key, pending, n) == keepShortNames(key, pending, n)

\* IdentityKey.doneInsertion: the rounds; the ids whose short name of n
\* segments is shared go to the next round
RECURSIVE shortNameRounds(_, _, _)
shortNameRounds(key, pending, n) ==
    IF pending = {} THEN key
    ELSE LET round(unique) ==
                 shortNameRounds(keepShortNames(key, unique, n), pending \ unique, n + 1)
         IN round({ id \in pending :
                      \A other \in pending \ { id } : shortName(other, n) # shortName(id, n) })

\* Key.doneInsertion, IdentityKey.doneInsertion
KeyDoneInsertion(kind, key) ==
    IF kind = "identity" THEN shortNameRounds(key, DOMAIN key.values, 1) ELSE key

\* IdentityKey.getShortNameOf(id): <<>> when the id has no short name
getShortNameOf(key, id) ==
    IF id \in DOMAIN key.idShortName THEN Some(key.idShortName[id]) ELSE None

\* Index.doneInsertion
IndexDoneInsertion(schema) ==
    [schema EXCEPT !.keys = [k \in DOMAIN @ |-> KeyDoneInsertion(KindOf(k), @[k])]]

\* Key.cloneKey, IdentityKey.cloneKey: the maps are copied, the Set objects
\* they hold are shared
cloneKey(this, from, kind) ==
    IF kind = "identity"
    THEN [this EXCEPT !.values = from.values, !.words = from.words,
                      !.identities = from.identities, !.idShortName = from.idShortName]
    ELSE [this EXCEPT !.values = from.values, !.words = from.words]

\* a mutation of where: the schema of the index itself is returned
where_MasterSchema(ss) == [schemas |-> ss, handle |-> 1]

\* Index.where over the schema objects created so far, the first being the
\* index's own: a new Index and schema, whose keys are cloned; the new schema
\* is returned
where(ss) ==
    [schemas |-> Append(ss, [NewSchema EXCEPT !.keys =
                                 [k \in DOMAIN NewSchema.keys |->
                                     cloneKey(NewSchema.keys[k], ss[1].keys[k], KindOf(k))]]),
     handle |-> Len(ss) + 1]

-----------------------------------------------------------------------------
(* The registry index: queries *)

\* a mutation of filter: the selection is replaced, not intersected
filter_Replace(schema, idsToKeep) ==
    [schema EXCEPT !.selectedElements = Some(idsToKeep)]

\* IndexSchema.filter(idsToKeep)
filter(schema, idsToKeep) ==
    [schema EXCEPT !.selectedElements =
        IF IsSome(@) THEN Some({ each \in idsToKeep : each \in @[1] })
        ELSE Some(idsToKeep)]

\* `value !== undefined && value !== ''`, for a string
Given(value) == value # <<>>

\* IndexSchema.items as ids: the selected ids, or all of them
SelectedIds(schema, items) ==
    IF IsSome(schema.selectedElements) THEN schema.selectedElements[1]
    ELSE 0..(Len(items) - 1)

\* `!selectedElements || selectedElements.has(id)`
InKeepList(schema, id) ==
    ~IsSome(schema.selectedElements) \/ id \in schema.selectedElements[1]

\* a mutation of contains: the value map is searched, not the word index
contains_WholeValue(heapNow, schema, k, value) ==
    IF Given(value)
    THEN filter(schema, IdsOf(heapNow, MapGet("string", schema.keys[k].values, value)))
    ELSE schema

\* Key.contains(value)
contains(heapNow, schema, k, value) ==
    IF Given(value)
    THEN filter(schema, IdsOf(heapNow, MapGet("string", schema.keys[k].words, value)))
    ELSE schema

\* Key.equals(value); the schema is left as it is when coerce throws
equals(heapNow, schema, k, value) ==
    IF Given(value) /\ IsSome(coerce(KindOf(k), value))
    THEN filter(schema, IdsOf(heapNow, MapGet(KindOf(k), schema.keys[k].values,
                                              coerce(KindOf(k), value)[1])))
    ELSE schema

\* values.maxKey() and values.minKey(): <<>> for an empty map
MaxKey(kind, m) ==
    IF DOMAIN m = {} THEN None
    ELSE Some(CHOOSE e \in DOMAIN m : \A o \in DOMAIN m : compare(kind, o, e) <= 0)

MinKey(kind, m) ==
    IF DOMAIN m = {} THEN None
    ELSE Some(CHOOSE e \in DOMAIN m : \A o \in DOMAIN m : compare(kind, e, o) <= 0)

\* `if (max && ...)`: the key exists and is not the empty string
KeyIsTruthy(kind, key) == IsSome(key) /\ HasValue(kind, key[1])

\* values.forRange(low, high, includeHigh, ...) collecting the ids
IdsInRange(heapNow, kind, m, low, high, includeHigh) ==
    UNION { heapNow[m[e]] :
              e \in { e \in DOMAIN m :
                        /\ compare(kind, e, low) >= 0
                        /\ \/ compare(kind, e, high) < 0
                           \/ includeHigh /\ compare(kind, e, high) = 0 } }

\* Key.greaterThan(value)
greaterThan(heapNow, schema, k, value) ==
    IF KeyIsTruthy(KindOf(k), MaxKey(KindOf(k), schema.keys[k].values)) /\ Given(value)
    THEN IF IsSome(coerce(KindOf(k), value))
         THEN filter(schema, IdsInRange(heapNow, KindOf(k), schema.keys[k].values,
                                        coerce(KindOf(k), value)[1],
                                        MaxKey(KindOf(k), schema.keys[k].values)[1], TRUE))
         ELSE schema
    ELSE filter(schema, {})

\* Key.lessThan(value)
lessThan(heapNow, schema, k, value) ==
    IF KeyIsTruthy(KindOf(k), MinKey(KindOf(k), schema.keys[k].values)) /\ Given(value)
    THEN IF IsSome(coerce(KindOf(k), value))
         THEN filter(schema, IdsInRange(heapNow, KindOf(k), schema.keys[k].values,
                                        MinKey(KindOf(k), schema.keys[k].values)[1],
                                        coerce(KindOf(k), value)[1], FALSE))
         ELSE schema
    ELSE filter(schema, {})

\* text.startsWith(value), text.endsWith(value)
TextStartsWith(txt, value) ==
    Len(value) <= Len(txt) /\ SubSeq(txt, 1, Len(value)) = value

TextEndsWith(txt, value) ==
    Len(value) <= Len(txt) /\ SubSeq(txt, Len(txt) - Len(value) + 1, Len(txt)) = value

\* the ids in the keep list held by the entries of map m with a key of `keys`
KeptIdsOf(heapNow, schema, m, keys) ==
    UNION { { id \in heapNow[m[e]] : InKeepList(schema, id) } : e \in keys }

\* Key.startsWith(value)
startsWith(heapNow, schema, k, value) ==
    filter(schema,
           KeptIdsOf(heapNow, schema, schema.keys[k].values,
                     { e \in DOMAIN schema.keys[k].values :
                         TextStartsWith(KeyToString(KindOf(k), e), value) }))

\* Key.endsWith(value)
endsWith(heapNow, schema, k, value) ==
    filter(schema,
           KeptIdsOf(heapNow, schema, schema.keys[k].values,
                     { e \in DOMAIN schema.keys[k].values :
                         TextEndsWith(KeyToString(KindOf(k), e), value) }))

\* new Range(value): any version for '', `x` and `*`, one version for a
\* version text; <<>> when the constructor throws
RangeOf(value) ==
    IF value = <<>> \/ value = <<"x">> \/ value = <<"*">>
    THEN Some([any |-> TRUE, version |-> SemVer(0, 0, 0, <<>>)])
    ELSE IF IsSome(ParseSemVer(value))
         THEN Some([any |-> FALSE, version |-> ParseSemVer(value)[1]])
         ELSE None

\* range.test(version)
RangeTest(range, version) == range.any \/ SemVerCompare(version, range.version) = 0

\* SemverKey.rangeMatch(value); the schema is left as it is when Range throws
rangeMatch(heapNow, schema, k, value) ==
    IF IsSome(RangeOf(value))
    THEN filter(schema,
                KeptIdsOf(heapNow, schema, schema.keys[k].values,
                          { e \in DOMAIN schema.keys[k].values :
                              RangeTest(RangeOf(value)[1], e) }))
    ELSE schema

\* a mutation of nameOrShortNameIs: the full identities are tried first
nameOrShortNameIs_EqualsFirst(heapNow, schema, k, value) ==
    IF Given(value)
    THEN IF IsSome(MapGet("string", schema.keys[k].values, value))
         THEN equals(heapNow, schema, k, value)
         ELSE IF IsSome(MapGet("string", schema.keys[k].identities, value))
              THEN filter(schema, IdsOf(heapNow, MapGet("string", schema.keys[k].identities, value)))
              ELSE equals(heapNow, schema, k, value)
    ELSE schema

\* IdentityKey.nameOrShortNameIs(value)
nameOrShortNameIs(heapNow, schema, k, value) ==
    IF Given(value)
    THEN IF IsSome(MapGet("string", schema.keys[k].identities, value))
         THEN filter(schema, IdsOf(heapNow, MapGet("string", schema.keys[k].identities, value)))
         ELSE equals(heapNow, schema, k, value)
    ELSE schema

-----------------------------------------------------------------------------
(* The registry index: the persisted object graph *)

\* The own properties of a dictionary object filled by `dict[name] = ids`
\* for the entries of map m, name being the entry's key as a string.
\* An assignment to the name __proto__ sets the prototype of the object and
\* creates no property.
DictOf(heapNow, kind, m) ==
    [name \in { KeyToString(kind, e) : e \in DOMAIN m } \ { S___proto__ } |->
        heapNow[m[CHOOSE e \in DOMAIN m : KeyToString(kind, e) = name]]]

\* Key.serialize, SemverKey.serialize (words: undefined)
KeySerialize(heapNow, kind, key) ==
    [keys |-> DictOf(heapNow, kind, key.values),
     words |-> IF kind = "semver" THEN None
               ELSE Some(DictOf(heapNow, "string", key.words))]

\* IndexSchema.serialize
SchemaSerialize(heapNow, schema) ==
    [k \in DOMAIN schema.keys |-> KeySerialize(heapNow, KindOf(k), schema.keys[k])]

\* Index.serialize
IndexSerialize(heapNow, items, schema) ==
    [items |-> items, indexes |-> SchemaSerialize(heapNow, schema)]

\* the loops of Key.deserialize: map.set(coerce(name), new Set(ids)) for the
\* entries of a dictionary
RECURSIVE setAll(_, _, _, _, _)
setAll(st, field, kind, dict, names) ==
    IF names = {} THEN st
    ELSE LET rest(name) ==
                 setAll([heap |-> Append(st.heap, dict[name]),
                         key |-> [st.key EXCEPT ![field] =
                                     MapSet(kind, @, coerce(kind, name)[1], Len(st.heap) + 1)]],
                        field, kind, dict, names \ { name })
         IN rest(CHOOSE name \in names : TRUE)

\* Key.deserialize, IdentityKey.deserialize; entries(undefined) is empty
KeyDeserialize(st, kind, content) ==
    LET words(v) ==
            IF IsSome(content.words)
            THEN setAll(v, "words", "string", content.words[1], DOMAIN content.words[1])
            ELSE v
        done(w) == [heap |-> w.heap, key |-> KeyDoneInsertion(kind, w.key)]
    IN done(words(setAll(st, "values", kind, content.keys, DOMAIN content.keys)))

\* the protoIdentity that each declared key is constructed with: a list of
\* names, or one name
ProtoIdentity(k) ==
    CASE k = "id" -> [t |-> "array", v |-> <<"id", "IdentityKey">>]
      [] k = "summary" -> [t |-> "array", v |-> <<"summary", "StringKey">>]
      [] OTHER -> [t |-> "string", v |-> k]

\* Key.constructor: alternativeIdentities; its first element is the identity
AlternativeIdentities(k) ==
    IF ProtoIdentity(k).t = "string" THEN << ProtoIdentity(k).v >> ELSE ProtoIdentity(k).v

\* a mutation of the search for a key's content: the last identity that
\* content has
FirstPresent_Last(identities, content) ==
    IF \E p \in DOMAIN identities : identities[p] \in DOMAIN content
    THEN CHOOSE p \in DOMAIN identities :
             /\ identities[p] \in DOMAIN content
             /\ \A q \in DOMAIN identities : q > p => identities[q] \notin DOMAIN content
    ELSE 0

\* IndexSchema.deserialize, the loop over alternativeIdentities: the position
\* of the first identity that content has, 0 when it has none
FirstPresent(identities, content) ==
    IF \E p \in DOMAIN identities : identities[p] \in DOMAIN content
    THEN CHOOSE p \in DOMAIN identities :
             /\ identities[p] \in DOMAIN content
             /\ \A q \in DOMAIN identities : q < p => identities[q] \notin DOMAIN content
    ELSE 0

\* IndexSchema.deserialize: the loop over the keys, from the i-th on; it
\* ends with an error at the first key none of whose identities content has,
\* the keys before it being loaded
RECURSIVE deserializeKeys(_, _, _, _)
deserializeKeys(heapNow, keys, i, content) ==
    IF i > Len(KeyNames) THEN [heap |-> heapNow, keys |-> keys, error |-> None]
    ELSE LET loaded(st) ==
                 deserializeKeys(st.heap, [keys EXCEPT ![KeyNames[i]] = st.key], i + 1, content)
             found(p) ==
                 IF p = 0
                 THEN [heap |-> heapNow, keys |-> keys,
                       error |-> Some([message |-> "Failed to deserialize index",
                                       key |-> KeyNames[i]])]
                 ELSE loaded(KeyDeserialize([heap |-> heapNow, key |-> keys[KeyNames[i]]],
                                            KindOf(KeyNames[i]),
                                            content[AlternativeIdentities(KeyNames[i])[p]]))
         IN found(FirstPresent(AlternativeIdentities(KeyNames[i]), content))

\* new Index(schema).deserialize(content): the heap, the new index and the
\* error thrown, if any
IndexDeserialize(heapNow, content) ==
    LET loaded(r) ==
            [heap |-> r.heap,
             index |-> [indexOfTargets |-> content.items,
                        indexSchema |-> [NewSchema EXCEPT !.keys = r.keys]],
             error |-> r.error]
    IN loaded(deserializeKeys(heapNow, NewSchema.keys, 1, content.indexes))

\* index.where.<k>.equals(value) and the ids it selects
EqualsIds(heapNow, items, schema, k, value) ==
    SelectedIds(equals(heapNow, where(<<schema>>).schemas[2], k, value), items)

\* no call of readStream and none of acquireArtifacts is made
NoStream == [data |-> <<>>, from |-> 0, start |-> 0, end |-> 0, yielded |-> <<>>, pc |-> "none"]

NoAcquire ==
    [resolved |-> <<>>, idx |-> 0, started |-> <<>>, outcomes |-> <<>>,
     acquiredArtifacts |-> <<>>, returned |-> None]

NoSession ==
    /\ stream = NoStream
    /\ acquire = NoAcquire

\* new Index(schema): no target, the schema as constructed, nothing
\* persisted
NewIndex ==
    /\ heap = <<>>
    /\ targets = <<>>
    /\ schemas = <<NewSchema>>
    /\ handles = <<>>
    /\ persisted = None
    /\ restored = None
    /\ thrown = None

-----------------------------------------------------------------------------
(* The parser's state (mediaquery/media-query.js) *)

\* no call of advance(count) with count >= 3 is running
NoSkip == [token |-> "", count |-> 0, argument |-> 0, offsetAdvancedBy |-> 0, returnTo |-> ""]

\* new QueryList()
NewQueryList == [queries |-> <<>>, error |-> None]

-----------------------------------------------------------------------------
(* The evaluator on its own: match applied to query lists and contexts *)

MaxQueries == 2

IdentTok(s) == Token("Identifier", s, None)

\* constant tokens: none, the boolean literal false, an identifier,
\* a string literal (text keeps the quotes, stringValue is the unquoted value)
ConstantTokens(word) ==
    { None,
      Some(Token("BooleanLiteral", S_false, None)),
      Some(Token("Identifier", word, None)),
      Some(Token("StringLiteral", <<"\"">> \o word \o <<"\"">>, Some(word))) }

ExprPool ==
    { Expression(IdentTok(S_os), c, n) : c \in ConstantTokens(S_windows), n \in BOOLEAN }
    \cup
    { Expression(IdentTok(S_arch), c, n) : c \in ConstantTokens(S_x64), n \in BOOLEAN }

\* the expressions the multi-expression queries are built from
StructPool ==
    { Expression(IdentTok(S_os), Some(Token("Identifier", S_windows, None)), FALSE),
      Expression(IdentTok(S_arch), Some(Token("Identifier", S_x64, None)), FALSE),
      Expression(IdentTok(S_os), None, TRUE) }

QueryPool ==
    { <<e>> : e \in StructPool } \cup { <<e1, e2>> : e1 \in StructPool, e2 \in StructPool }

RECURSIVE SeqsUpTo(_, _)
SeqsUpTo(S, n) ==
    IF n = 0 THEN { <<>> }
    ELSE LET shorter == SeqsUpTo(S, n - 1)
         IN shorter \cup { Append(s, x) : s \in { t \in shorter : Len(t) = n - 1 }, x \in S }

QueriesPool ==
    SeqsUpTo(QueryPool, MaxQueries) \cup { << <<e>> >> : e \in ExprPool }

\* a parse error: its message and the position it was raised at
ErrorPool == { None, Some([message |-> "Expected expression", line |-> 0, column |-> 0]) }

OsValues ==
    { JSUndefined, JSStr(S_windows), JSStr(S_linux), JSStr(S_false), JSStr(<<>>),
      JSBool(TRUE), JSBool(FALSE) }

ArchValues == { JSUndefined, JSStr(S_x64), JSStr(S_false) }

ContextPool ==
    { [f \in {S_os, S_arch} |-> IF f = S_os THEN o ELSE a] : o \in OsValues, a \in ArchValues }

InitMatch ==
    /\ queryList \in { [queries |-> qs, error |-> er] : qs \in QueriesPool, er \in ErrorPool }
    /\ properties \in ContextPool
    /\ matchResult = None
    /\ text = <<>>
    /\ cursor = NewScanner
    /\ pc = "parsed"
    /\ isNotted = FALSE
    /\ parenDepth = 0
    /\ feature = None
    /\ returned = None
    /\ result = <<>>
    /\ skipping = NoSkip
    /\ NewIndex
    /\ NoSession

\* QueryList.match(properties), on the list parseQuery returned
Match ==
    /\ pc = "parsed"
    /\ matchResult = None
    /\ matchResult' = Some(QueryListMatch(queryList, properties))
    /\ UNCHANGED <<queryList, properties>>
    /\ UNCHANGED sessionVars
    /\ UNCHANGED parseVars
    /\ UNCHANGED indexVars

NextMatch == Match

SpecMatch == InitMatch /\ [][NextMatch]_vars

-----------------------------------------------------------------------------
(* The evaluator on context values of every type (SpecCoerce)              *)

S_0 == <<"0">>

\* the values of the feature espidf in a context
ContextValues ==
    LET scalars == { JSUndefined, JSNull, JSBool(TRUE), JSBool(FALSE),
                     JSNum(0), JSNum(1), JSNum(10), JSNum(0 - 1),
                     JSStr(<<>>), JSStr(S_false), JSStr(S_true), JSStr(S_a), JSStr(S_0),
                     JSObj }
        arrays == { JSArr(<<>>) } \cup { JSArr(<<v>>) : v \in scalars }
                    \cup { JSArr(<<JSStr(S_a), JSBool(FALSE)>>),
                            JSArr(<<JSBool(FALSE), JSStr(S_a)>>) }
    IN scalars \cup arrays \cup { JSArr(<<v>>) : v \in arrays }

\* the contexts: without the feature, and with each of the values
CoerceContexts == { <<>> } \cup { [f \in { S_espidf } |-> v] : v \in ContextValues }

\* espidf, bare and with a constant, plain and negated
CoerceExpressions ==
    { Expression(IdentTok(S_espidf), c, n) :
         c \in ConstantTokens(S_true) \cup { Some(Token("NumericLiteral", S_0, None)) },
         n \in BOOLEAN }

InitCoerce ==
    /\ queryList \in { [queries |-> << <<e>> >>, error |-> None] : e \in CoerceExpressions }
    /\ properties \in CoerceContexts
    /\ matchResult = None
    /\ text = <<>>
    /\ cursor = NewScanner
    /\ pc = "parsed"
    /\ isNotted = FALSE
    /\ parenDepth = 0
    /\ feature = None
    /\ returned = None
    /\ result = <<>>
    /\ skipping = NoSkip
    /\ NewIndex
    /\ NoSession

SpecCoerce == InitCoerce /\ [][NextMatch]_vars

-----------------------------------------------------------------------------
(* parseQuery(text) step by step, then match                              *)

\* the longest text is made of this many lexemes
MaxLexemes == 3

\* advance(count) is followed through this many skipped characters
MaxSkip == 9

Lexemes ==
    { S_a, S_espidf, S___proto__, S_not, S_and, <<" ">>, <<",">>, <<"(">>, <<")">>, <<":">>,
      <<"=", "=", "=">>, <<"=", "=", "=", "=", "=", "=", "=">> }

RECURSIVE TextsUpTo(_)
TextsUpTo(n) ==
    IF n = 0 THEN { <<>> }
    ELSE LET shorter == TextsUpTo(n - 1)
         IN shorter \cup { t \o l : t \in shorter, l \in Lexemes }

TextPool == TextsUpTo(MaxLexemes)

\* contexts: {}, {espidf: true}, {a: true, espidf: "false"}
QueryContexts ==
    { <<>>,
      [f \in { S_espidf } |-> JSBool(TRUE)],
      [f \in { S_a, S_espidf } |-> IF f = S_a THEN JSBool(TRUE) ELSE JSStr(S_false)] }

InitQuery ==
    /\ text \in TextPool
    /\ cursor = NewScanner
    /\ pc = "start"
    /\ queryList = NewQueryList
    /\ properties \in QueryContexts
    /\ matchResult = None
    /\ isNotted = FALSE
    /\ parenDepth = 0
    /\ feature = None
    /\ returned = None
    /\ result = <<>>
    /\ skipping = NoSkip
    /\ NewIndex
    /\ NoSession

\* isWhiteSpace(cursor) under the loop condition of takeWhitespace
AtWhitespace == ~Eof(text, cursor) /\ cursor.kind = Some("Whitespace")

\* the token fields copied by Scanner.take()
CurrentToken == Token(cursor.kind[1], cursor.text[1], cursor.stringValue)

\* new MediaQueryError(message, ...) caught by QueryList.parse
ThrowAt(c, message) ==
    /\ queryList' = [queryList EXCEPT
                        !.error = Some(MediaQueryError(message, position(text, c)))]
    /\ pc' = "parsed"

\* a MediaQueryError thrown by the parser, at cursor.position
Throw(message) == ThrowAt(cursor, message)

\* cursor.scan() called by the parser, which goes on at position returnTo
\* when the call returns
Scan(returnTo) ==
    \E r \in { scan(text, cursor) } :
       CASE r.status = "ok" ->
              /\ cursor' = r.cursor
              /\ pc' = returnTo
              /\ UNCHANGED <<queryList, skipping>>
         [] r.status = "throw" ->
              /\ cursor' = r.cursor
              /\ ThrowAt(r.cursor, r.error)
              /\ UNCHANGED skipping
         [] OTHER ->
              /\ cursor' = r.cursor
              /\ pc' = "advance"
              /\ skipping' = [token |-> r.kind, argument |-> r.count, count |-> r.count - 3,
                              offsetAdvancedBy |-> sizeOf(Ch(text, r.cursor))
                                                   + sizeOf(ChNext(text, r.cursor))
                                                   + sizeOf(ChNextNext(text, r.cursor)),
                              returnTo |-> returnTo]
              /\ UNCHANGED queryList

\* Scanner.advance(count), count >= 3: one iteration of `while (count)`
AdvanceSkip ==
    /\ pc = "advance"
    /\ skipping.count # 0
    /\ skipping.offsetAdvancedBy < MaxSkip
    /\ skipping' = [skipping EXCEPT !.offsetAdvancedBy =
                        @ + sizeOf(CharAt(text, cursor.offset + skipping.offsetAdvancedBy))]
    /\ UNCHANGED <<text, cursor, pc, isNotted, parenDepth, feature, returned, result>>
    /\ UNCHANGED matchVars
    /\ UNCHANGED sessionVars
    /\ UNCHANGED indexVars

\* Scanner.advance(count), count >= 3: the loop is left, and Scanner.next
\* completes the token
AdvanceExit ==
    /\ pc = "advance"
    /\ skipping.count = 0
    /\ cursor' = [cursor EXCEPT !.offset = @ + skipping.offsetAdvancedBy,
                                !.text = Some(Substr(text, cursor.offset, skipping.offsetAdvancedBy)),
                                !.column = @ + skipping.argument,
                                !.kind = Some(skipping.token)]
    /\ pc' = skipping.returnTo
    /\ skipping' = NoSkip
    /\ UNCHANGED <<text, isNotted, parenDepth, feature, returned, result>>
    /\ UNCHANGED matchVars
    /\ UNCHANGED sessionVars
    /\ UNCHANGED indexVars

\* QueryList.parse: cursor.scan() starts the scanner
Start ==
    /\ pc = "start"
    /\ Scan("parseQuery")
    /\ UNCHANGED <<text, isNotted, parenDepth, feature, returned, result>>
    /\ UNCHANGED <<properties, matchResult>>
    /\ UNCHANGED sessionVars
    /\ UNCHANGED indexVars

\* takeWhitespace(cursor): one iteration of its loop
TakeWhitespace ==
    /\ pc \in { "parseQuery", "expression", "afterFeature", "constant", "return",
                "afterExpression", "afterQuery" }
    /\ pc = "return" => parenDepth > 0
    /\ AtWhitespace
    /\ Scan(pc)
    /\ UNCHANGED <<text, isNotted, parenDepth, feature, returned, result>>
    /\ UNCHANGED <<properties, matchResult>>
    /\ UNCHANGED sessionVars
    /\ UNCHANGED indexVars

\* QueryList.parseQuery after its first takeWhitespace: return at the end of
\* the text, otherwise Query.parse begins a query
ParseQuery ==
    /\ pc = "parseQuery"
    /\ ~AtWhitespace
    /\ pc' = IF Eof(text, cursor) THEN "parsed" ELSE "expression"
    /\ result' = <<>>
    /\ isNotted' = FALSE
    /\ parenDepth' = 0
    /\ feature' = None
    /\ UNCHANGED <<text, cursor, returned, skipping>>
    /\ UNCHANGED matchVars
    /\ UNCHANGED sessionVars
    /\ UNCHANGED indexVars

\* the kind of the current token
CurrentKind == cursor.kind[1]

\* Expression.parse with a second `not` taken like the first
ParseExpression_NotRepeated ==
    /\ pc = "expression"
    /\ ~AtWhitespace
    /\ CASE CurrentKind = "Identifier" ->
              /\ feature' = Some(CurrentToken)
              /\ Scan("afterFeature")
              /\ UNCHANGED <<isNotted, parenDepth>>
         [] CurrentKind = "NotKeyword" ->
              /\ isNotted' = TRUE
              /\ Scan("expression")
              /\ UNCHANGED <<parenDepth, feature>>
         [] CurrentKind = "OpenParen" ->
              /\ parenDepth' = parenDepth + 1
              /\ Scan("expression")
              /\ UNCHANGED <<isNotted, feature>>
         [] OTHER ->
              /\ Throw("Expected expression")
              /\ UNCHANGED <<cursor, skipping, isNotted, parenDepth, feature>>
    /\ UNCHANGED <<text, returned, result>>
    /\ UNCHANGED <<properties, matchResult>>
    /\ UNCHANGED sessionVars
    /\ UNCHANGED indexVars

\* Expression.parse: the switch on cursor.kind
ParseExpression ==
    /\ pc = "expression"
    /\ ~AtWhitespace
    /\ CASE CurrentKind = "Identifier" ->
              /\ feature' = Some(CurrentToken)
              /\ Scan("afterFeature")
              /\ UNCHANGED <<isNotted, parenDepth>>
         [] CurrentKind = "NotKeyword" ->
              IF isNotted
              THEN /\ Throw("Expression specified NOT twice")
                   /\ UNCHANGED <<cursor, skipping, isNotted, parenDepth, feature>>
              ELSE /\ isNotted' = TRUE
                   /\ Scan("expression")
                   /\ UNCHANGED <<parenDepth, feature>>
         [] CurrentKind = "OpenParen" ->
              /\ parenDepth' = parenDepth + 1
              /\ Scan("expression")
              /\ UNCHANGED <<isNotted, feature>>
         [] OTHER ->
              /\ Throw("Expected expression")
              /\ UNCHANGED <<cursor, skipping, isNotted, parenDepth, feature>>
    /\ UNCHANGED <<text, returned, result>>
    /\ UNCHANGED <<properties, matchResult>>
    /\ UNCHANGED sessionVars
    /\ UNCHANGED indexVars

\* Expression.parse after the feature: a colon announces a constant
AfterFeature ==
    /\ pc = "afterFeature"
    /\ ~AtWhitespace
    /\ IF CurrentKind = "Colon"
       THEN /\ Scan("constant")
            /\ UNCHANGED returned
       ELSE /\ returned' = Some(Expression(feature[1], None, isNotted))
            /\ pc' = "return"
            /\ UNCHANGED <<cursor, skipping, queryList>>
    /\ UNCHANGED <<text, isNotted, parenDepth, feature, result>>
    /\ UNCHANGED <<properties, matchResult>>
    /\ UNCHANGED sessionVars
    /\ UNCHANGED indexVars

ConstantKinds == { "NumericLiteral", "BooleanLiteral", "Identifier", "StringLiteral" }

\* Expression.parse after the colon: the constant
ParseConstant ==
    /\ pc = "constant"
    /\ ~AtWhitespace
    /\ IF CurrentKind \in ConstantKinds
       THEN /\ returned' = Some(Expression(feature[1], Some(CurrentToken), isNotted))
            /\ Scan("return")
       ELSE /\ Throw("Expected one of {Number, Boolean, Identifier, String}")
            /\ UNCHANGED <<cursor, skipping, returned>>
    /\ UNCHANGED <<text, isNotted, parenDepth, feature, result>>
    /\ UNCHANGED <<properties, matchResult>>
    /\ UNCHANGED sessionVars
    /\ UNCHANGED indexVars

\* Expression.parse, case OpenParen, once the inner call returned: the close
\* parenthesis is required and taken, and the inner result returned
CloseParen ==
    /\ pc = "return"
    /\ parenDepth > 0
    /\ ~AtWhitespace
    /\ IF CurrentKind # "CloseParen"
       THEN /\ Throw("Expected close parenthesis for expression")
            /\ UNCHANGED <<cursor, skipping, parenDepth>>
       ELSE /\ parenDepth' = parenDepth - 1
            /\ Scan("return")
    /\ UNCHANGED <<text, isNotted, feature, result, returned>>
    /\ UNCHANGED <<properties, matchResult>>
    /\ UNCHANGED sessionVars
    /\ UNCHANGED indexVars

\* Query.parse: result.push(Expression.parse(cursor))
PushExpression ==
    /\ pc = "return"
    /\ parenDepth = 0
    /\ result' = Append(result, returned[1])
    /\ returned' = None
    /\ feature' = None
    /\ pc' = "afterExpression"
    /\ UNCHANGED <<text, cursor, isNotted, parenDepth, skipping>>
    /\ UNCHANGED matchVars
    /\ UNCHANGED sessionVars
    /\ UNCHANGED indexVars

\* Query.parse after an expression: `and` continues the query, anything else
\* ends it, and QueryList.parse pushes the query that parseQuery yields
AfterExpression ==
    /\ pc = "afterExpression"
    /\ ~AtWhitespace
    /\ IF CurrentKind = "AndKeyword"
       THEN /\ Scan("expression")
            /\ isNotted' = FALSE
            /\ UNCHANGED result
       ELSE /\ queryList' = [queryList EXCEPT !.queries = Append(@, result)]
            /\ result' = <<>>
            /\ pc' = "afterQuery"
            /\ UNCHANGED <<cursor, skipping, isNotted>>
    /\ UNCHANGED <<text, parenDepth, feature, returned>>
    /\ UNCHANGED <<properties, matchResult>>
    /\ UNCHANGED sessionVars
    /\ UNCHANGED indexVars

\* QueryList.parseQuery after a query: the end of the text, a comma and the
\* next query, or an error
AfterQuery ==
    /\ pc = "afterQuery"
    /\ ~AtWhitespace
    /\ IF Eof(text, cursor) \/ CurrentKind = "EndOfFile"
       THEN /\ pc' = "parsed"
            /\ UNCHANGED <<cursor, skipping, queryList>>
       ELSE IF CurrentKind = "Comma"
            THEN Scan("parseQuery")
            ELSE /\ Throw("Expected comma")
                 /\ UNCHANGED <<cursor, skipping>>
    /\ UNCHANGED <<text, isNotted, parenDepth, feature, result, returned>>
    /\ UNCHANGED <<properties, matchResult>>
    /\ UNCHANGED sessionVars
    /\ UNCHANGED indexVars

NextQuery ==
    \/ Start
    \/ TakeWhitespace
    \/ ParseQuery
    \/ ParseExpression
    \/ AfterFeature
    \/ ParseConstant
    \/ CloseParen
    \/ PushExpression
    \/ AfterExpression
    \/ AfterQuery
    \/ AdvanceSkip
    \/ AdvanceExit
    \/ Match

SpecQuery == InitQuery /\ [][NextQuery]_vars

-----------------------------------------------------------------------------
(* Query texts with string literals (SpecString)                           *)

MaxStringLexemes == 4

S_feature == <<"a", ":">>

StringLexemes ==
    { S_a, S_feature, <<"\"">>, <<"'">>, <<"\\">>, <<" ">>, <<"(">>, <<")">>,
      <<"=", "=", "=">> }

RECURSIVE StringTextsUpTo(_)
StringTextsUpTo(n) ==
    IF n = 0 THEN { <<>> }
    ELSE LET shorter == StringTextsUpTo(n - 1)
         IN shorter \cup { t \o l : t \in shorter, l \in StringLexemes }

StringTextPool == StringTextsUpTo(MaxStringLexemes)

\* contexts: {}, {a: "a"}
StringContexts == { <<>>, [f \in { S_a } |-> JSStr(S_a)] }

InitString ==
    /\ text \in StringTextPool
    /\ cursor = NewScanner
    /\ pc = "start"
    /\ queryList = NewQueryList
    /\ properties \in StringContexts
    /\ matchResult = None
    /\ isNotted = FALSE
    /\ parenDepth = 0
    /\ feature = None
    /\ returned = None
    /\ result = <<>>
    /\ skipping = NoSkip
    /\ NewIndex
    /\ NoSession

SpecString == InitString /\ [][NextQuery]_vars

-----------------------------------------------------------------------------
(* Query texts of several expressions and queries (SpecGrammar)            *)

MaxGrammarLexemes == 5

S_b == <<"b">>

S_ba == <<"b", ":", "a">>

S_notSpace == <<"n", "o", "t", " ">>

S_spaceAndSpace == <<" ", "a", "n", "d", " ">>

GrammarLexemes ==
    { S_a, S_ba, S_notSpace, S_spaceAndSpace, <<"(">>, <<")">>, <<",">>,
      <<"=", "=", "=">> }

RECURSIVE GrammarTextsUpTo(_)
GrammarTextsUpTo(n) ==
    IF n = 0 THEN { <<>> }
    ELSE LET shorter == GrammarTextsUpTo(n - 1)
         IN shorter \cup { t \o l : t \in shorter, l \in GrammarLexemes }

GrammarTextPool == GrammarTextsUpTo(MaxGrammarLexemes)

InitGrammar ==
    /\ text \in GrammarTextPool
    /\ cursor = NewScanner
    /\ pc = "start"
    /\ queryList = NewQueryList
    /\ properties = <<>>
    /\ matchResult = None
    /\ isNotted = FALSE
    /\ parenDepth = 0
    /\ feature = None
    /\ returned = None
    /\ result = <<>>
    /\ skipping = NoSkip
    /\ NewIndex
    /\ NoSession

SpecGrammar == InitGrammar /\ [][NextQuery]_vars

-----------------------------------------------------------------------------
(* Query texts with numeric literals (SpecNumber)                          *)

MaxNumberLexemes == 4

S_0x == <<"0", "x">>

S_0X == <<"0", "X">>

S_0b == <<"0", "b">>

S_0B == <<"0", "B">>

NumberLexemes ==
    { S_feature, S_0x, S_0X, S_0b, S_0B, <<"0">>, <<"1">>, <<"f">>,
      <<"(", "a", ")">>, <<" ">>, <<",">>, <<"=", "=", "=">> }

RECURSIVE NumberTextsUpTo(_)
NumberTextsUpTo(n) ==
    IF n = 0 THEN { <<>> }
    ELSE LET shorter == NumberTextsUpTo(n - 1)
         IN shorter \cup { t \o l : t \in shorter, l \in NumberLexemes }

NumberTextPool == NumberTextsUpTo(MaxNumberLexemes)

InitNumber ==
    /\ text \in NumberTextPool
    /\ cursor = NewScanner
    /\ pc = "start"
    /\ queryList = NewQueryList
    /\ properties = <<>>
    /\ matchResult = None
    /\ isNotted = FALSE
    /\ parenDepth = 0
    /\ feature = None
    /\ returned = None
    /\ result = <<>>
    /\ skipping = NoSkip
    /\ NewIndex
    /\ NoSession

SpecNumber == InitNumber /\ [][NextQuery]_vars

-----------------------------------------------------------------------------
(* Texts with tabs, scanned token by token with a configured tab width     *)
(* (SpecTab)                                                               *)

MaxTabLexemes == 4

MaxTabWidth == 4

TabLexemes == { <<" ">>, <<"\t">>, S_a }

RECURSIVE TabTextsUpTo(_)
TabTextsUpTo(n) ==
    IF n = 0 THEN { <<>> }
    ELSE LET shorter == TabTextsUpTo(n - 1)
         IN shorter \cup { t \o l : t \in shorter, l \in TabLexemes }

\* new Scanner(text) with tabWidth set before scanning
InitTab ==
    /\ text \in TabTextsUpTo(MaxTabLexemes)
    /\ cursor \in { [NewScanner EXCEPT !.tabWidth = w] : w \in 1..MaxTabWidth }
    /\ pc = "created"
    /\ queryList = NewQueryList
    /\ properties = <<>>
    /\ matchResult = None
    /\ isNotted = FALSE
    /\ parenDepth = 0
    /\ feature = None
    /\ returned = None
    /\ result = <<>>
    /\ skipping = NoSkip
    /\ NewIndex
    /\ NoSession

\* Scanner.start(): the first scan
StartTokens ==
    /\ pc = "created"
    /\ Scan("tokens")
    /\ UNCHANGED <<text, isNotted, parenDepth, feature, returned, result>>
    /\ UNCHANGED <<properties, matchResult>>
    /\ UNCHANGED sessionVars
    /\ UNCHANGED indexVars

\* Scanner.TokensFrom: one iteration of `while (!scanner.eof) yield scanner.take()`
TakeToken ==
    /\ pc = "tokens"
    /\ ~Eof(text, cursor)
    /\ Scan("tokens")
    /\ UNCHANGED <<text, isNotted, parenDepth, feature, returned, result>>
    /\ UNCHANGED <<properties, matchResult>>
    /\ UNCHANGED sessionVars
    /\ UNCHANGED indexVars

NextTab == StartTokens \/ TakeToken

SpecTab == InitTab /\ [][NextTab]_vars

-----------------------------------------------------------------------------
(* An index that is built and queried through views (SpecIndex), and an    *)
(* index that is built, persisted and restored (SpecPersist)               *)

MaxTargets == 2

MaxViews == 2

\* the targets that are inserted, each with the fields the keys read
TargetPool ==
    { [id |-> S_ax, version |-> SemVer(1, 0, 0, <<>>), summary |-> S_x],
      [id |-> S_bx, version |-> SemVer(1, 0, 0, <<"b">>), summary |-> S_xy],
      [id |-> S___proto__, version |-> SemVer(2, 0, 0, <<>>), summary |-> S_y] }

KeySet == { KeyNames[i] : i \in DOMAIN KeyNames }

\* the values handed to the queries of a view: '', a word and short name
\* that is also the range of any version, an identity, a version
QueryValues == { <<>>, S_x, S_ax, S_100 }

\* the ids handed to IndexSchema.filter: ids that targets have or will have,
\* and one that no target has
IdSets == SUBSET (0..(MaxTargets - 1)) \cup { { MaxTargets } }

\* the ids of the targets
TargetIds == 0..(Len(targets) - 1)

\* the schemas that callers of where hold
Views == { handles[i] : i \in DOMAIN handles }

InitIndex ==
    /\ queryList = NewQueryList
    /\ properties = <<>>
    /\ matchResult = None
    /\ text = <<>>
    /\ cursor = NewScanner
    /\ pc = "parsed"
    /\ isNotted = FALSE
    /\ parenDepth = 0
    /\ feature = None
    /\ returned = None
    /\ result = <<>>
    /\ skipping = NoSkip
    /\ NewIndex
    /\ NoSession

\* index.insert(content, target), the content being the target
Insert ==
    /\ Len(targets) < MaxTargets
    /\ \E target \in TargetPool :
         \E r \in { insertKeys(heap, schemas[1].keys, 1, target, Len(targets)) } :
            /\ targets' = Append(targets, target)
            /\ heap' = r.heap
            /\ schemas' = [schemas EXCEPT ![1].keys = r.keys]
    /\ UNCHANGED <<handles, persisted, restored, thrown>>
    /\ UNCHANGED matchVars
    /\ UNCHANGED sessionVars
    /\ UNCHANGED parseVars

\* index.doneInsertion()
DoneInsertion ==
    /\ schemas' = [schemas EXCEPT ![1] = IndexDoneInsertion(@)]
    /\ UNCHANGED <<heap, targets, handles, persisted, restored, thrown>>
    /\ UNCHANGED matchVars
    /\ UNCHANGED sessionVars
    /\ UNCHANGED parseVars

\* index.where
Where ==
    /\ Len(handles) < MaxViews
    /\ \E r \in { where(schemas) } :
         /\ schemas' = r.schemas
         /\ handles' = Append(handles, r.handle)
    /\ UNCHANGED <<heap, targets, persisted, restored, thrown>>
    /\ UNCHANGED matchVars
    /\ UNCHANGED sessionVars
    /\ UNCHANGED parseVars

\* a query on schema h leaves it as `narrowed`
Narrow(h, narrowed) ==
    /\ schemas' = [schemas EXCEPT ![h] = narrowed]
    /\ UNCHANGED <<heap, targets, handles, persisted, restored, thrown>>
    /\ UNCHANGED matchVars
    /\ UNCHANGED sessionVars
    /\ UNCHANGED parseVars

\* view.<k>.contains(value)
Contains ==
    \E h \in Views, k \in KeySet, value \in QueryValues :
       Narrow(h, contains(heap, schemas[h], k, value))

\* view.<k>.equals(value)
Equals ==
    \E h \in Views, k \in KeySet, value \in QueryValues :
       Narrow(h, equals(heap, schemas[h], k, value))

\* view.<k>.greaterThan(value)
GreaterThan ==
    \E h \in Views, k \in KeySet, value \in QueryValues :
       Narrow(h, greaterThan(heap, schemas[h], k, value))

\* view.<k>.lessThan(value)
LessThan ==
    \E h \in Views, k \in KeySet, value \in QueryValues :
       Narrow(h, lessThan(heap, schemas[h], k, value))

\* view.<k>.startsWith(value)
StartsWith ==
    \E h \in Views, k \in KeySet, value \in QueryValues :
       Narrow(h, startsWith(heap, schemas[h], k, value))

\* view.<k>.endsWith(value)
EndsWith ==
    \E h \in Views, k \in KeySet, value \in QueryValues :
       Narrow(h, endsWith(heap, schemas[h], k, value))

\* view.version.rangeMatch(value): a method of the semver key alone
RangeMatch ==
    \E h \in Views, k \in { k \in KeySet : KindOf(k) = "semver" }, value \in QueryValues :
       Narrow(h, rangeMatch(heap, schemas[h], k, value))

\* view.id.nameOrShortNameIs(value): a method of the identity key alone
NameOrShortNameIs ==
    \E h \in Views, k \in { k \in KeySet : KindOf(k) = "identity" }, value \in QueryValues :
       Narrow(h, nameOrShortNameIs(heap, schemas[h], k, value))

\* view.filter(idsToKeep)
Filter ==
    \E h \in Views, idsToKeep \in IdSets :
       Narrow(h, filter(schemas[h], idsToKeep))

\* index.serialize(), its result being written out
Serialize ==
    /\ persisted = None
    /\ persisted' = Some(IndexSerialize(heap, targets, schemas[1]))
    /\ UNCHANGED <<heap, targets, schemas, handles, restored, thrown>>
    /\ UNCHANGED matchVars
    /\ UNCHANGED sessionVars
    /\ UNCHANGED parseVars

\* new Index(schema).deserialize(content), the content being read back
Deserialize ==
    /\ IsSome(persisted)
    /\ restored = None
    /\ \E r \in { IndexDeserialize(heap, persisted[1]) } :
         /\ heap' = r.heap
         /\ restored' = Some(r.index)
         /\ thrown' = r.error
    /\ UNCHANGED <<targets, schemas, handles, persisted>>
    /\ UNCHANGED matchVars
    /\ UNCHANGED sessionVars
    /\ UNCHANGED parseVars

NextIndex ==
    \/ Insert
    \/ DoneInsertion
    \/ Where
    \/ Contains
    \/ Equals
    \/ GreaterThan
    \/ LessThan
    \/ StartsWith
    \/ EndsWith
    \/ RangeMatch
    \/ NameOrShortNameIs
    \/ Filter

SpecIndex == InitIndex /\ [][NextIndex]_vars

NextPersist ==
    \/ Insert
    \/ DoneInsertion
    \/ Serialize
    \/ Deserialize

SpecPersist == InitIndex /\ [][NextPersist]_vars

\* index.deserialize(content) on the index that was built, the content
\* being what it was serialized to earlier: the targets are replaced by the
\* items of the content, and every key of the index's own schema loads its
\* data. `restored` keeps the index as the call left it.
Reload ==
    /\ IsSome(persisted)
    /\ restored = None
    /\ \E r \in { deserializeKeys(heap, schemas[1].keys, 1, persisted[1].indexes) } :
         /\ heap' = r.heap
         /\ targets' = persisted[1].items
         /\ schemas' = [schemas EXCEPT ![1].keys = r.keys]
         /\ restored' = Some([indexOfTargets |-> persisted[1].items,
                              indexSchema |-> [schemas[1] EXCEPT !.keys = r.keys]])
         /\ thrown' = r.error
    /\ UNCHANGED <<handles, persisted>>
    /\ UNCHANGED matchVars
    /\ UNCHANGED sessionVars
    /\ UNCHANGED parseVars

NextReload ==
    \/ Insert
    \/ DoneInsertion
    \/ Serialize
    \/ Reload

SpecReload == InitIndex /\ [][NextReload]_vars

-----------------------------------------------------------------------------
(* An index that is built, finalized, reset and handed out as views        *)
(* (SpecBuild)                                                             *)

\* index.reset(): a new schema; the targets stay
Reset ==
    /\ schemas' = [schemas EXCEPT ![1] = NewSchema]
    /\ UNCHANGED <<heap, targets, handles, persisted, restored, thrown>>
    /\ UNCHANGED matchVars
    /\ UNCHANGED sessionVars
    /\ UNCHANGED parseVars

NextBuild ==
    \/ Insert
    \/ DoneInsertion
    \/ Reset
    \/ Where

SpecBuild == InitIndex /\ [][NextBuild]_vars

-----------------------------------------------------------------------------
(* A new index that deserializes a persisted graph it is handed            *)
(* (SpecRestore)                                                           *)

\* the names a persisted graph may hold key data under
PersistedNames == { "id", "IdentityKey", "version", "summary", "StringKey" }

\* the kind of key whose data is held under a name
KindOfName(name) ==
    CASE name \in { "id", "IdentityKey" } -> "identity"
      [] name = "version" -> "semver"
      [] OTHER -> "string"

\* two persisted keys of each kind, for a single target
KeyContents(kind) ==
    CASE kind = "identity" ->
           { [keys |-> (S_ax :> { 0 }), words |-> Some(S_x :> { 0 })],
             [keys |-> (S_bx :> { 0 }), words |-> Some(S_x :> { 0 })] }
      [] kind = "semver" ->
           { [keys |-> (S_100 :> { 0 }), words |-> None],
             [keys |-> (S_200 :> { 0 }), words |-> None] }
      [] OTHER ->
           { [keys |-> (S_x :> { 0 }), words |-> Some(S_x :> { 0 })],
             [keys |-> (S_y :> { 0 }), words |-> Some(S_y :> { 0 })] }

\* the persisted graphs: key data under any of the names
ContentPool ==
    { [items |-> << [id |-> S_ax, version |-> SemVer(1, 0, 0, <<>>), summary |-> S_x] >>,
       indexes |-> f] :
        f \in UNION { { g \in [names -> UNION { KeyContents(KindOfName(n)) : n \in PersistedNames }] :
                          \A n \in names : g[n] \in KeyContents(KindOfName(n)) } :
                      names \in SUBSET PersistedNames } }

InitRestore ==
    /\ queryList = NewQueryList
    /\ properties = <<>>
    /\ matchResult = None
    /\ text = <<>>
    /\ cursor = NewScanner
    /\ pc = "parsed"
    /\ isNotted = FALSE
    /\ parenDepth = 0
    /\ feature = None
    /\ returned = None
    /\ result = <<>>
    /\ skipping = NoSkip
    /\ heap = <<>>
    /\ targets = <<>>
    /\ schemas = <<NewSchema>>
    /\ handles = <<>>
    /\ persisted \in { Some(content) : content \in ContentPool }
    /\ restored = None
    /\ thrown = None
    /\ NoSession

NextRestore == Deserialize

SpecRestore == InitRestore /\ [][NextRestore]_vars

-----------------------------------------------------------------------------
(* An index whose targets differ in their identity (SpecNames) *)

MaxIdentities == 3

S_abx == <<"a", "/", "b", "/", "x">>

S_acx == <<"a", "/", "c", "/", "x">>

S_aby == <<"a", "/", "b", "/", "y">>

\* the identities of the targets: with one, two and three segments, some
\* that share trailing segments and some that are the tail of another
IdentityPool == { S_x, S_y, S_ax, S_bx, S_abx, S_acx, S_aby }

\* index.insert(content, target) of a target with identity id
InsertIdentity ==
    /\ Len(targets) < MaxIdentities
    /\ \E id \in IdentityPool :
         \E target \in { [id |-> id, version |-> SemVer(1, 0, 0, <<>>), summary |-> S_x] } :
            \E r \in { insertKeys(heap, schemas[1].keys, 1, target, Len(targets)) } :
               /\ targets' = Append(targets, target)
               /\ heap' = r.heap
               /\ schemas' = [schemas EXCEPT ![1].keys = r.keys]
    /\ UNCHANGED <<handles, persisted, restored, thrown>>
    /\ UNCHANGED matchVars
    /\ UNCHANGED sessionVars
    /\ UNCHANGED parseVars

NextNames ==
    \/ InsertIdentity
    \/ DoneInsertion

SpecNames == InitIndex /\ [][NextNames]_vars

\* Identities are inserted in several batches, each closed by doneInsertion,
\* and looked up by name or short name through a view.
MaxNamed == 3
MaxLookupViews == 1

NamedPool == { S_x, S_ax, S_bx }

LookupValues == { S_x, S_y, S_ax, S_bx }

\* Index.insert of a target that has one of the identities of NamedPool
InsertNamed ==
    /\ Len(targets) < MaxNamed
    /\ \E id \in NamedPool :
         \E target \in { [id |-> id, version |-> SemVer(1, 0, 0, <<>>), summary |-> S_x] } :
            \E r \in { insertKeys(heap, schemas[1].keys, 1, target, Len(targets)) } :
               /\ targets' = Append(targets, target)
               /\ heap' = r.heap
               /\ schemas' = [schemas EXCEPT ![1].keys = r.keys]
    /\ UNCHANGED <<handles, persisted, restored, thrown>>
    /\ UNCHANGED matchVars
    /\ UNCHANGED sessionVars
    /\ UNCHANGED parseVars

\* Index.where, for the views the lookups go through
OpenView ==
    /\ Len(handles) < MaxLookupViews
    /\ \E r \in { where(schemas) } :
         /\ schemas' = r.schemas
         /\ handles' = Append(handles, r.handle)
    /\ UNCHANGED <<heap, targets, persisted, restored, thrown>>
    /\ UNCHANGED matchVars
    /\ UNCHANGED sessionVars
    /\ UNCHANGED parseVars

\* view.id.nameOrShortNameIs(value)
LookUp ==
    \E h \in Views, value \in LookupValues :
       Narrow(h, nameOrShortNameIs(heap, schemas[h], "id", value))

NextLookup ==
    \/ InsertNamed
    \/ DoneInsertion
    \/ OpenView
    \/ LookUp

SpecLookup == InitIndex /\ [][NextLookup]_vars

-----------------------------------------------------------------------------
(* Properties of the evaluator *)

MatchDone == IsSome(matchResult)

\* a valid list made of one query with one expression: match decides that expression
SingleExpression ==
    /\ MatchDone
    /\ IsValid(queryList)
    /\ Len(queryList.queries) = 1
    /\ Len(queryList.queries[1]) = 1

TheExpression == queryList.queries[1][1]

TheContextValue == stringValue(PropertyOf(properties, Feature(TheExpression)))

ScenarioQuery ==
    << Expression(IdentTok(S_os), Some(Token("Identifier", S_windows, None)), FALSE),
       Expression(IdentTok(S_arch), Some(Token("Identifier", S_x64, None)), FALSE) >>

\* C1: match returns true exactly when the list is valid and at least one of its
\* queries has every one of its expressions matching the context (AND inside a
\* query, OR across queries; an invalid list never matches); the query
\* `os:windows and arch:x64` matches {os: "windows", arch: "x64"} and does not
\* match {os: "linux", arch: "x64"}.
C1_MatchIsAnyQueryAllExpressions ==
    MatchDone =>
        /\ matchResult[1] =
              ( /\ IsValid(queryList)
                /\ \E q \in 1..Len(queryList.queries) :
                      \A i \in 1..Len(queryList.queries[q]) :
                          ExpressionMatches(queryList.queries[q][i], properties) )
        /\ ( /\ IsValid(queryList)
             /\ queryList.queries = <<ScenarioQuery>>
             /\ properties[S_arch] = JSStr(S_x64)
             /\ properties[S_os].t = "string" )
           => /\ properties[S_os].s = S_windows => matchResult[1] = TRUE
              /\ properties[S_os].s = S_linux => matchResult[1] = FALSE

\* C1 witness: the first query fails on its second expression, the second query
\* matches, and match returned true
C1_Witness ==
    /\ MatchDone
    /\ IsValid(queryList)
    /\ Len(queryList.queries) = 2
    /\ Len(queryList.queries[1]) = 2
    /\ ExpressionMatches(queryList.queries[1][1], properties)
    /\ ~ExpressionMatches(queryList.queries[1][2], properties)
    /\ matchResult[1] = TRUE

\* C3 (as claimed): a negated expression whose feature has no value in the
\* context matches unless its constant is absent: `not f` does not match,
\* `not f:c` does.
C3_NegatedAbsentMatchesUnlessNoConstant ==
    (SingleExpression /\ TheExpression.not /\ ~Truthy(TheContextValue))
        => (matchResult[1] = IsSome(Constant(TheExpression)))

\* C3 (amended): a negated expression whose feature has no value in the context
\* matches exactly when its constant is absent: `not f` matches, `not f:c` does not.
C3_NegatedAbsentMatchesIffNoConstant ==
    (SingleExpression /\ TheExpression.not /\ ~Truthy(TheContextValue))
        => (matchResult[1] = ~IsSome(Constant(TheExpression)))

\* C3 witness: `not os:windows` was matched against a context without os and
\* did not match
C3_Witness ==
    /\ SingleExpression
    /\ TheExpression.not
    /\ IsSome(Constant(TheExpression))
    /\ properties[Feature(TheExpression)] = JSUndefined
    /\ matchResult[1] = FALSE

\* C4 (as claimed): a non-negated expression whose feature has no value in the
\* context matches unless its constant is the string "false".
C4_AbsentMatchesUnlessFalse ==
    (SingleExpression /\ ~TheExpression.not /\ ~Truthy(TheContextValue))
        => (matchResult[1] = (Constant(TheExpression) # Some(S_false)))

\* C4 (amended): a non-negated expression whose feature has no value in the
\* context matches exactly when its constant is the string "false": `os:false`
\* matches the empty context, `os:windows` and bare `os` do not.
C4_AbsentMatchesIffFalse ==
    (SingleExpression /\ ~TheExpression.not /\ ~Truthy(TheContextValue))
        => (matchResult[1] = (Constant(TheExpression) = Some(S_false)))

\* C4 witness: `os:false` was matched against a context without os and matched
C4_Witness ==
    /\ SingleExpression
    /\ ~TheExpression.not
    /\ Constant(TheExpression) = Some(S_false)
    /\ properties[Feature(TheExpression)] = JSUndefined
    /\ matchResult[1] = TRUE

\* C5: with a non-empty coerced context value v, a non-negated expression matches
\* iff (constant given and v = constant) or (constant absent and v # "false"),
\* and the negated expression matches iff (constant given and v # constant) or
\* (constant absent and v = "false").
C5_PresentValueTable ==
    (SingleExpression /\ Truthy(TheContextValue)) =>
        LET v == TheContextValue[1]
            given == IsSome(Constant(TheExpression))
            positive == \/ given /\ v = Constant(TheExpression)[1]
                        \/ ~given /\ v # S_false
        IN matchResult[1] = IF TheExpression.not THEN ~positive ELSE positive

\* C5 witness: a negated expression with a constant was matched against a
\* different non-empty value and matched
C5_Witness ==
    /\ SingleExpression
    /\ TheExpression.not
    /\ IsSome(Constant(TheExpression))
    /\ Truthy(TheContextValue)
    /\ TheContextValue # Constant(TheExpression)
    /\ matchResult[1] = TRUE

-----------------------------------------------------------------------------
(* Properties of parseQuery followed by match *)

FeatureNames == { S_a, S_espidf, S___proto__ }

\* the text `not f`
NotQueryText(f) == S_not \o <<" ">> \o f

\* C2: for every feature name f, the query parsed from `not f` matches every
\* context that has no key f, and does not match a context in which f is true.
C2_NotFeatureMatchesAbsentNotTrue ==
    \A f \in FeatureNames :
        (text = NotQueryText(f) /\ MatchDone) =>
            /\ f \notin DOMAIN properties => matchResult = Some(TRUE)
            /\ (f \in DOMAIN properties /\ properties[f].t = "boolean" /\ properties[f].b)
                    => matchResult = Some(FALSE)

\* C6: when parseQuery has returned a list with an error, the list holds no
\* query.
C6_FailedParseLeavesNoQueries ==
    (pc = "parsed" /\ ~IsValid(queryList)) => queryList.queries = <<>>

\* C7: a call advance(count) made by scan() passes count characters and
\* returns: it is never found having passed more than count characters.
C7_AdvancePassesCountCharacters ==
    pc = "advance" => skipping.offsetAdvancedBy <= skipping.argument

-----------------------------------------------------------------------------
(* Properties of the views of an index *)

\* the schemas that the queries of the keys can leave view h as
KeyQueryResults(h) ==
    UNION { { contains(heap, schemas[h], k, value),
              equals(heap, schemas[h], k, value),
              greaterThan(heap, schemas[h], k, value),
              lessThan(heap, schemas[h], k, value),
              startsWith(heap, schemas[h], k, value),
              endsWith(heap, schemas[h], k, value),
              IF KindOf(k) = "semver" THEN rangeMatch(heap, schemas[h], k, value)
              ELSE schemas[h],
              IF KindOf(k) = "identity" THEN nameOrShortNameIs(heap, schemas[h], k, value)
              ELSE schemas[h] } : k \in KeySet, value \in QueryValues }

\* the schemas that filter can leave view h as, given one of idSets
FilterResults(h, idSets) == { filter(schemas[h], idsToKeep) : idsToKeep \in idSets }

\* every schema of `after` selects a subset of what view h selects
OnlyNarrows(h, after) ==
    \A narrowed \in after :
        SelectedIds(narrowed, targets) \subseteq SelectedIds(schemas[h], targets)

SelectionChanges ==
    \E i \in DOMAIN schemas : schemas'[i].selectedElements # schemas[i].selectedElements

\* C9: a view is never the schema of the index and separate where calls give
\* separate schemas; the index's own selected set stays undefined; and a
\* query on a view changes that view alone: the index's schema with its key
\* maps, the Set objects of ids, the targets and every other view stay as
\* they are.
C9_QueriesChangeOneViewOnly ==
    /\ [](/\ 1 \notin Views
          /\ \A i, j \in DOMAIN handles : i # j => handles[i] # handles[j]
          /\ schemas[1].selectedElements = None)
    /\ [][SelectionChanges =>
             /\ schemas'[1] = schemas[1]
             /\ heap' = heap
             /\ targets' = targets
             /\ Cardinality({ i \in DOMAIN schemas : schemas'[i] # schemas[i] }) = 1]_vars

\* C9 witness: two views of an index with targets whose selections differ
C9_Witness ==
    /\ Len(targets) = MaxTargets
    /\ \E g, h \in Views :
         /\ g # h
         /\ IsSome(schemas[g].selectedElements)
         /\ IsSome(schemas[h].selectedElements)
         /\ schemas[g].selectedElements # schemas[h].selectedElements

-----------------------------------------------------------------------------
(* Properties of the persisted index *)

\* the values that equals is asked for
EqualsValues ==
    QueryValues \cup { S_y, S_xy, S_bx, S___proto__, S_200,
                       <<"1", ".", "0", ".", "0", "+", "b">> }

\* doneInsertion has run since the last insert
Finalized ==
    DOMAIN schemas[1].keys["id"].idShortName = DOMAIN schemas[1].keys["id"].values

\* C10: once an index built by inserts and doneInsertion has been serialized
\* and a new index has deserialized the result, where.<key>.equals(v) selects
\* the same ids on both, for every key and every value v.
C10_RoundTripKeepsEquals ==
    (/\ IsSome(restored)
     /\ Finalized
     /\ persisted = Some(IndexSerialize(heap, targets, schemas[1])))
        => \A k \in KeySet, value \in EqualsValues :
               EqualsIds(heap, restored[1].indexOfTargets, restored[1].indexSchema, k, value)
                   = EqualsIds(heap, targets, schemas[1], k, value)

-----------------------------------------------------------------------------
(* Properties of the short names *)

\* the identity key of the index once doneInsertion has run on it
DoneKey == KeyDoneInsertion("identity", schemas[1].keys["id"])

\* doneInsertion has run on the identity key as it is
ShortNamesCurrent == schemas[1].keys["id"] = DoneKey

\* C11: after IdentityKey.doneInsertion, whatever was inserted and finalized
\* before, every indexed identity has a short name and no two distinct
\* identities have the same one.
C11_ShortNamesInjective ==
    \A key \in { DoneKey } :
        \A id \in DOMAIN key.values :
            /\ IsSome(getShortNameOf(key, id))
            /\ \A other \in DOMAIN key.values \ { id } :
                   getShortNameOf(key, other) # getShortNameOf(key, id)

\* C11 witness: doneInsertion has run on three distinct identities, two of
\* which share their last segment
C11_Witness ==
    /\ ShortNamesCurrent
    /\ Cardinality(DOMAIN schemas[1].keys["id"].values) = 3
    /\ \E id, other \in DOMAIN schemas[1].keys["id"].values :
          id # other /\ shortName(id, 1) = shortName(other, 1)

\* the segments of an identity, and the identity cut to its last k segments
\* (the whole identity when it has fewer)
SegmentsOf(id) == SplitSlash(id)

TrailingSuffix(id, k) ==
    IF k >= Len(SegmentsOf(id)) THEN id
    ELSE JoinSlash(SubSeq(SegmentsOf(id), Len(SegmentsOf(id)) - k + 1, Len(SegmentsOf(id))), 1)

\* no other identity of ids has the trailing suffix of k segments of id
SuffixIsUnique(id, ids, k) ==
    \A other \in ids \ { id } : TrailingSuffix(other, k) # TrailingSuffix(id, k)

\* the smallest k >= 1 for which the trailing suffix of id is unique
SmallestUniqueK(id, ids) ==
    CHOOSE k \in 1..(Len(SegmentsOf(id)) + 1) :
        /\ SuffixIsUnique(id, ids, k)
        /\ \A j \in 1..(k - 1) : ~SuffixIsUnique(id, ids, j)

\* C12: after doneInsertion the short name of each identity is its trailing
\* suffix of k segments for the smallest k >= 1 at which no other indexed
\* identity has the same trailing suffix; identities a/b/x, a/c/x and a/b/y
\* get the short names b/x, c/x and y.
C12_ShortNameIsSmallestUniqueSuffix ==
    \A key \in { DoneKey } :
        /\ \A id \in DOMAIN key.values :
               getShortNameOf(key, id)
                   = Some(TrailingSuffix(id, SmallestUniqueK(id, DOMAIN key.values)))
        /\ DOMAIN key.values = { S_abx, S_acx, S_aby } =>
               /\ getShortNameOf(key, S_abx) = Some(S_bx)
               /\ getShortNameOf(key, S_acx) = Some(<<"c", "/", "x">>)
               /\ getShortNameOf(key, S_aby) = Some(S_y)

\* C12 witness: doneInsertion has run on the identities a/b/x, a/c/x, a/b/y
C12_Witness ==
    /\ ShortNamesCurrent
    /\ DOMAIN schemas[1].keys["id"].values = { S_abx, S_acx, S_aby }

-----------------------------------------------------------------------------
(* Properties of the ids of the targets *)

\* every id under a value of key k is the position of a target with that
\* value, and every id under a word is that of a target whose value has it
IdsNameTheirTargets ==
    \A i \in DOMAIN schemas, k \in KeySet :
        /\ \A e \in DOMAIN schemas[i].keys[k].values :
               \A n \in heap[schemas[i].keys[k].values[e]] :
                   /\ n \in TargetIds
                   /\ compare(KindOf(k), Accessor(k, targets[n + 1]), e) = 0
        /\ \A e \in DOMAIN schemas[i].keys[k].words :
               \A n \in heap[schemas[i].keys[k].words[e]] :
                   /\ n \in TargetIds
                   /\ e \in WordsOf(KeyToString(KindOf(k), Accessor(k, targets[n + 1])))
        /\ \A e \in DOMAIN schemas[i].keys[k].identities :
               heap[schemas[i].keys[k].identities[e]] \subseteq TargetIds

\* a step that inserts a target
TargetInserted == targets' # targets

\* C13: whatever inserts, doneInsertion, reset and where calls have run,
\* every id held by a value map, word index or short-name map of the index
\* or of a view is in [0, number of targets) and names a target that has
\* the value or word it is held under; and an insert appends its target as
\* the k-th and stores k-1 as its id.
C13_IdsArePositionsOfTargets ==
    /\ []IdsNameTheirTargets
    /\ [][TargetInserted =>
             /\ Len(targets') = Len(targets) + 1
             /\ SubSeq(targets', 1, Len(targets)) = targets
             /\ \A k \in KeySet :
                    Len(targets) \in IdsOf(heap', MapGet(KindOf(k), schemas'[1].keys[k].values,
                                                        Accessor(k, targets'[Len(targets')])))]_vars

\* C13 witness: a target was inserted after a reset, while a view made
\* before the reset still holds the id of the first target
C13_Witness ==
    /\ Len(targets) = MaxTargets
    /\ DOMAIN schemas[1].keys["id"].values # {}
    /\ \A e \in DOMAIN schemas[1].keys["id"].values :
          0 \notin heap[schemas[1].keys["id"].values[e]]
    /\ \E h \in Views : \E e \in DOMAIN schemas[h].keys["id"].values :
          0 \in heap[schemas[h].keys["id"].values[e]]

-----------------------------------------------------------------------------
(* Properties of IndexSchema.deserialize *)

\* the identities of key k that the persisted graph has, in their order
PresentIdentities(k) ==
    SelectSeq(AlternativeIdentities(k), LAMBDA name : name \in DOMAIN persisted[1].indexes)

\* the declared keys none of whose identities the persisted graph has
MissingKeys == { k \in KeySet : PresentIdentities(k) = <<>> }

\* key k of the restored index holds the values persisted under name
LoadedFrom(k, name) ==
    { KeyToString(KindOf(k), e) : e \in DOMAIN restored[1].indexSchema.keys[k].values }
        = DOMAIN persisted[1].indexes[name].keys

\* C14: once deserialize has run, every declared key holds the data of the
\* first of its identities (the primary, then the alternates in order) that
\* the content has, and an error was thrown exactly when the content has
\* none of the identities of some declared key.
C14_KeysLoadFromFirstIdentityPresent ==
    IsSome(restored) =>
        /\ MissingKeys = {} =>
               /\ thrown = None
               /\ \A k \in KeySet : LoadedFrom(k, PresentIdentities(k)[1])
        /\ MissingKeys # {} => IsSome(thrown)

\* C14 witness: deserialize has loaded one key from its alternate identity,
\* the primary being absent, and another from its primary although other
\* data lies under the alternate
C14_Witness ==
    /\ IsSome(restored)
    /\ thrown = None
    /\ "id" \notin DOMAIN persisted[1].indexes
    /\ { "summary", "StringKey" } \subseteq DOMAIN persisted[1].indexes
    /\ persisted[1].indexes["summary"] # persisted[1].indexes["StringKey"]

-----------------------------------------------------------------------------
(* Properties of string literals that are never closed *)

isQuote(ch) == ch = "\"" \/ ch = "'"

\* the position of the quote that closes a literal whose characters begin at
\* position i (one-based), 0 when there is none; a backslash escapes the
\* character after it
RECURSIVE ClosingQuote(_, _, _)
ClosingQuote(txt, i, quote) ==
    IF i > Len(txt) THEN 0
    ELSE IF txt[i] = "\\" THEN ClosingQuote(txt, i + 2, quote)
    ELSE IF txt[i] = quote THEN i
    ELSE ClosingQuote(txt, i + 1, quote)

\* the position of the quote that opens the first literal of the text, from
\* position i on, that is never closed; 0 when every literal is closed
RECURSIVE OpenLiteral(_, _)
OpenLiteral(txt, i) ==
    IF i > Len(txt) THEN 0
    ELSE IF isQuote(txt[i])
         THEN IF ClosingQuote(txt, i + 1, txt[i]) = 0 THEN i
              ELSE OpenLiteral(txt, ClosingQuote(txt, i + 1, txt[i]) + 1)
         ELSE OpenLiteral(txt, i + 1)

\* the parse has ended on a text with a literal that is never closed
ParsedOpenLiteral == pc = "parsed" /\ OpenLiteral(text, 1) > 0

\* the error of the assertion of scanUntil, naming the quote that was
\* searched for and carrying a line and a column (the texts have no line
\* breaks, so the line is 0; the column is at most the offset of the opening
\* quote, the closing quote of an earlier literal not being counted)
IsEndOfFileError(error, txt) ==
    /\ error.message = UnexpectedEndOfFile(txt[OpenLiteral(txt, 1)])
    /\ DOMAIN error = { "message", "line", "column" }
    /\ error.line = 0
    /\ error.column \in 0..(OpenLiteral(txt, 1) - 1)

\* C15 as stated: every query text in which a string literal is opened and
\* never closed yields an invalid QueryList whose error is the
\* unexpected-end-of-file error with a line and a column, and match on it
\* returns false for every context.
C15_OpenLiteralIsEndOfFileError ==
    ParsedOpenLiteral
        => /\ ~IsValid(queryList)
           /\ IsEndOfFileError(queryList.error[1], text)
           /\ IsSome(matchResult) => matchResult = Some(FALSE)

\* C15, amended: a query text in which a string literal is opened and never
\* closed yields an invalid QueryList, and match on it returns false for
\* every context.  The error is the unexpected-end-of-file error, with a
\* line and a column, when the parse gets as far as the literal; when a token before the literal is rejected, the error is the
\* one raised at that token and the literal is never scanned.
C15_OpenLiteralIsInvalid ==
    ParsedOpenLiteral
        => /\ ~IsValid(queryList)
           /\ IsSome(matchResult) => matchResult = Some(FALSE)
           /\ IF cursor.tokOffset = Some(OpenLiteral(text, 1) - 1)
              THEN IsEndOfFileError(queryList.error[1], text)
              ELSE /\ cursor.tokOffset[1] < OpenLiteral(text, 1) - 1
                   /\ queryList.error[1].message
                         \notin { UnexpectedEndOfFile("\""), UnexpectedEndOfFile("'") }

\* C15 witness: `a:"a` has been parsed and matched: the error is the
\* unexpected end of file at column 2 and the match is false
C15_Witness ==
    /\ text = S_feature \o <<"\"", "a">>
    /\ pc = "parsed"
    /\ queryList.queries = <<>>
    /\ queryList.error
         = Some([message |-> "Unexpected end of file while searching for '\"'",
                 line |-> 0, column |-> 2])
    /\ matchResult = Some(FALSE)
    /\ properties # <<>>
-----------------------------------------------------------------------------
(* Properties of `not` *)

\* the operands a and b:a, and the expressions they parse to
Operands == { S_a, S_ba }

OperandExpression(operand, not) ==
    IF operand = S_a
    THEN Expression(IdentTok(S_a), None, not)
    ELSE Expression(IdentTok(S_b), Some(IdentTok(S_a)), not)

InParens(txt) == <<"(">> \o txt \o <<")">>

\* `not not x`, alone, in parentheses, before a parenthesised operand and
\* after a query or an expression
DoubledNotTexts ==
    UNION { { S_notSpace \o S_notSpace \o o,
              S_notSpace \o S_notSpace \o InParens(o),
              InParens(S_notSpace \o S_notSpace \o o),
              S_a \o <<",">> \o S_notSpace \o S_notSpace \o o,
              S_a \o S_spaceAndSpace \o S_notSpace \o S_notSpace \o o } : o \in Operands }

\* `not x`, `not (x)` and `(not x)`
SingleNotTexts(operand) ==
    { S_notSpace \o operand,
      S_notSpace \o InParens(operand),
      InParens(S_notSpace \o operand) }

\* C16: a text in which `not` is applied twice (`not not x`) ends in the parse
\* error "Expression specified NOT twice" and an invalid QueryList; a single
\* `not`, with or without parentheses around the operand, yields one
\* expression whose `not` is true.
C16_NotTwiceIsErrorNotOnceNegates ==
    pc = "parsed"
        => /\ text \in DoubledNotTexts
                => /\ ~IsValid(queryList)
                   /\ queryList.error[1].message = "Expression specified NOT twice"
           /\ \A o \in Operands :
                 /\ text \in SingleNotTexts(o)
                      => /\ IsValid(queryList)
                         /\ queryList.queries = << << OperandExpression(o, TRUE) >> >>
                 /\ text \in { o, InParens(o) }
                      => /\ IsValid(queryList)
                         /\ queryList.queries = << << OperandExpression(o, FALSE) >> >>

\* C16 witness: `not not a` has ended in the error
C16_Witness ==
    /\ pc = "parsed"
    /\ text = S_notSpace \o S_notSpace \o S_a
    /\ queryList.queries = <<>>
    /\ IsSome(queryList.error)
    /\ queryList.error[1].message = "Expression specified NOT twice"
-----------------------------------------------------------------------------
(* Properties of texts that conform to the grammar *)

\* the texts of the grammar's Expression, built from the operands a and b:a
\* by `not` and parentheses, with the feature each names and the number of
\* lexemes it takes; `not` is not applied to a text that begins with `not`
\* (`not not x`), and nots counts the `not`s an operand stands under
RECURSIVE ExpressionTexts(_)
ExpressionTexts(depth) ==
    IF depth = 0
    THEN { [txt |-> S_a, feature |-> S_a, size |-> 1, nots |-> 0, begins |-> FALSE],
           [txt |-> S_ba, feature |-> S_b, size |-> 1, nots |-> 0, begins |-> FALSE] }
    ELSE LET inner == ExpressionTexts(depth - 1)
         IN inner
            \cup { [txt |-> S_notSpace \o e.txt, feature |-> e.feature,
                    size |-> e.size + 1, nots |-> e.nots + 1, begins |-> TRUE]
                       : e \in { x \in inner : ~x.begins /\ x.size < MaxGrammarLexemes } }
            \cup { [txt |-> InParens(e.txt), feature |-> e.feature,
                    size |-> e.size + 2, nots |-> e.nots, begins |-> FALSE]
                       : e \in { x \in inner : x.size + 2 <= MaxGrammarLexemes } }

\* Query := Expression ('and' Expression)*: the texts of up to n expressions
\* with the features they name, in order
RECURSIVE QueryTexts(_)
QueryTexts(n) ==
    IF n = 1
    THEN { [txt |-> e.txt, features |-> << e.feature >>, size |-> e.size, nots |-> e.nots]
              : e \in ExpressionTexts(MaxGrammarLexemes) }
    ELSE LET shorter == QueryTexts(n - 1)
         IN shorter
            \cup { [txt |-> q.txt \o S_spaceAndSpace \o e.txt,
                    features |-> Append(q.features, e.feature),
                    size |-> q.size + 1 + e.size,
                    nots |-> IF q.nots > e.nots THEN q.nots ELSE e.nots]
                       : q \in { x \in shorter : x.size + 2 <= MaxGrammarLexemes },
                         e \in { x \in ExpressionTexts(MaxGrammarLexemes) :
                                   x.size + 2 <= MaxGrammarLexemes } }

\* QueryList := Query (',' Query)* EOF: the texts of up to n queries with
\* the features of each query
RECURSIVE QueryListTexts(_)
QueryListTexts(n) ==
    IF n = 1
    THEN { [txt |-> q.txt, parts |-> << q.features >>, size |-> q.size, nots |-> q.nots]
              : q \in QueryTexts(MaxGrammarLexemes) }
    ELSE LET shorter == QueryListTexts(n - 1)
         IN shorter
            \cup { [txt |-> l.txt \o <<",">> \o q.txt,
                    parts |-> Append(l.parts, q.features),
                    size |-> l.size + 1 + q.size,
                    nots |-> IF l.nots > q.nots THEN l.nots ELSE q.nots]
                       : l \in { x \in shorter : x.size + 2 <= MaxGrammarLexemes },
                         q \in { x \in QueryTexts(MaxGrammarLexemes) :
                                   x.size + 2 <= MaxGrammarLexemes } }

\* the conforming texts of the pool
ConformingTexts ==
    { l \in QueryListTexts(MaxGrammarLexemes) : l.size <= MaxGrammarLexemes }

\* the features of the expressions of each query of a list, in order
PartsOf(ql) ==
    [i \in 1..Len(ql.queries) |->
        [j \in 1..Len(ql.queries[i]) |-> Feature(ql.queries[i][j])]]

\* C17: every text that conforms to the grammar parses to a valid QueryList
\* of at least one query, with one query per comma-separated part and one
\* expression per `and`-separated part, in the order of the text.
C17_ConformingTextsParse ==
    pc = "parsed"
        => \A l \in ConformingTexts :
              text = l.txt
                 => /\ IsValid(queryList)
                    /\ Len(queryList.queries) >= 1
                    /\ PartsOf(queryList) = l.parts

\* the same for the conforming texts in which no operand stands under more
\* than one `not`
ConformingTextsNegatedOnceParse ==
    pc = "parsed"
        => \A l \in ConformingTexts :
              (text = l.txt /\ l.nots <= 1)
                 => /\ IsValid(queryList)
                    /\ Len(queryList.queries) >= 1
                    /\ PartsOf(queryList) = l.parts
-----------------------------------------------------------------------------
(* Properties of the coercion of context values *)

\* match has been applied to the query `not espidf`
NotEspidfMatched ==
    /\ MatchDone
    /\ queryList = [queries |-> << << Expression(IdentTok(S_espidf), None, TRUE) >> >>,
                    error |-> None]

\* the value of espidf in the context
EspidfValue == PropertyOf(properties, S_espidf)

\* the values that are written false: the boolean, the string, and an array
\* that begins with one of these
RECURSIVE IsWrittenFalse(_)
IsWrittenFalse(value) ==
    \/ value = JSBool(FALSE)
    \/ value = JSStr(S_false)
    \/ value.t = "array" /\ Len(value.a) > 0 /\ IsWrittenFalse(value.a[1])

\* C18 as stated: `not espidf` matches exactly when the context value of
\* espidf is absent or falsy (false, 0, the empty string, null).
C18_NotEspidfMatchesIffAbsentOrFalsy ==
    NotEspidfMatched
        => matchResult[1]
             = (EspidfValue \in { JSUndefined, JSBool(FALSE), JSNum(0), JSStr(<<>>), JSNull })

\* C18, amended: `not espidf` matches exactly when the context value of
\* espidf is absent, the empty string, or written false (the boolean false,
\* the string "false", or an array that begins with one of these); it does
\* not match for 0 or null, which are coerced to "0" and "true".
C18_NotEspidfMatchesIffAbsentOrFalse ==
    NotEspidfMatched
        => matchResult[1]
             = (EspidfValue \in { JSUndefined, JSStr(<<>>) } \/ IsWrittenFalse(EspidfValue))

\* C18 witness: `not espidf` was matched against {espidf: 0} and did not match
C18_Witness ==
    /\ NotEspidfMatched
    /\ properties = [f \in { S_espidf } |-> JSNum(0)]
    /\ matchResult = Some(FALSE)

\* the string form of a boolean, a number or a string
StringForm(value) ==
    CASE value.t = "string" -> value.s
      [] value.t = "number" -> NumToString(value.n)
      [] OTHER -> IF value.b THEN S_true ELSE S_false

IsScalar(value) == value.t \in { "string", "number", "boolean" }

\* the values JavaScript takes for false in a condition
IsFalsy(value) ==
    value \in { JSUndefined, JSNull, JSBool(FALSE), JSNum(0), JSStr(<<>>) }

\* the coercion as C19 states it: the first element of an array counts as
\* missing when the element itself is falsy
RECURSIVE StatedCoercion(_)
StatedCoercion(value) ==
    IF IsScalar(value) THEN Some(StringForm(value))
    ELSE IF value = JSUndefined THEN None
    ELSE IF value.t = "array" /\ Len(value.a) > 0 /\ ~IsFalsy(value.a[1])
         THEN StatedCoercion(value.a[1])
    ELSE Some(S_true)

\* the coercion, amended: the first element of an array counts as missing
\* when its own coercion is absent or the empty string
RECURSIVE AmendedCoercion(_)
AmendedCoercion(value) ==
    IF IsScalar(value) THEN Some(StringForm(value))
    ELSE IF value = JSUndefined THEN None
    ELSE IF value.t = "array" /\ Len(value.a) > 0
              /\ AmendedCoercion(value.a[1]) \notin { None, Some(<<>>) }
         THEN AmendedCoercion(value.a[1])
    ELSE Some(S_true)

\* C19 as stated: a boolean, number or string is coerced to its string form,
\* null to "true", an array to the string form of its first element, or to
\* "true" when the first element is absent or falsy ([], [false] and [0] all
\* give "true"), any other object to "true", and undefined is absent.
C19_CoercionFalsyFirstElement ==
    /\ stringValue(EspidfValue) = StatedCoercion(EspidfValue)
    /\ stringValue(JSArr(<<JSBool(FALSE)>>)) = Some(S_true)
    /\ stringValue(JSArr(<<JSNum(0)>>)) = Some(S_true)

\* C19, amended: a boolean, number or string is coerced to its string form,
\* null to "true", any object that is not an array to "true", and undefined
\* is absent; an array is coerced to the coercion of its first element, or to
\* "true" when that coercion is absent or the empty string: [], [""] and
\* [undefined] give "true", while [false] gives "false" and [0] gives "0".
\* match compares the coerced value.
C19_CoercionEmptyFirstElement ==
    /\ stringValue(EspidfValue) = AmendedCoercion(EspidfValue)
    /\ stringValue(JSArr(<<>>)) = Some(S_true)
    /\ stringValue(JSArr(<<JSStr(<<>>)>>)) = Some(S_true)
    /\ stringValue(JSArr(<<JSUndefined>>)) = Some(S_true)
    /\ stringValue(JSArr(<<JSBool(FALSE)>>)) = Some(S_false)
    /\ stringValue(JSArr(<<JSNum(0)>>)) = Some(S_0)
    /\ stringValue(JSNull) = Some(S_true)
    /\ stringValue(JSObj) = Some(S_true)
    /\ (SingleExpression /\ ~TheExpression.not /\ IsSome(Constant(TheExpression))
          /\ AmendedCoercion(EspidfValue) \notin { None, Some(<<>>) })
         => matchResult[1] = (AmendedCoercion(EspidfValue) = Constant(TheExpression))

\* C19 witness: `espidf:false` was matched against {espidf: [false]} and
\* matched, the array being coerced to "false"
C19_Witness ==
    /\ SingleExpression
    /\ ~TheExpression.not
    /\ Constant(TheExpression) = Some(S_false)
    /\ properties = [f \in { S_espidf } |-> JSArr(<<JSBool(FALSE)>>)]
    /\ matchResult = Some(TRUE)
-----------------------------------------------------------------------------
(* Properties of numeric literals with a prefix *)

\* one or two digits out of a set
DigitRuns(digits) == { <<d>> : d \in digits } \cup { <<d, e>> : d \in digits, e \in digits }

HexLiterals == { p \o ds : p \in { S_0x, S_0X }, ds \in DigitRuns({ "0", "1", "f" }) }

BinaryLiterals(prefixes) == { p \o ds : p \in prefixes, ds \in DigitRuns({ "0", "1" }) }

\* the text `a:` followed by the literal has been parsed to a valid list of
\* one expression whose constant is one NumericLiteral token
ParsesToOneConstant(literal) ==
    (pc = "parsed" /\ text = S_feature \o literal)
        => /\ IsValid(queryList)
           /\ Len(queryList.queries) = 1
           /\ Len(queryList.queries[1]) = 1
           /\ Feature(queryList.queries[1][1]) = S_a
           /\ IsSome(queryList.queries[1][1].constantToken)
           /\ queryList.queries[1][1].constantToken[1].kind = "NumericLiteral"

\* C20: a numeric literal with the prefix 0x or 0X and hex digits, or with
\* the prefix 0b or 0B and binary digits, is scanned as one NumericLiteral
\* token: `a:0b1` and `a:0B1` both parse to a valid expression with one
\* constant token.
C20_PrefixedLiteralsAreOneToken ==
    \A literal \in HexLiterals \cup BinaryLiterals({ S_0b, S_0B }) :
        ParsesToOneConstant(literal)

\* the same for the prefixes 0x, 0X and 0B only
UpperCaseBinaryAndHexAreOneToken ==
    \A literal \in HexLiterals \cup BinaryLiterals({ S_0B }) :
        ParsesToOneConstant(literal)
-----------------------------------------------------------------------------
(* Properties of the column across whitespace *)

\* the column after a run of whitespace, a tab moving it to the next
\* multiple of the tab width and any other character by one
RECURSIVE NextTabStops(_, _, _)
NextTabStops(column, run, width) ==
    IF run = <<>> THEN column
    ELSE NextTabStops(IF run[1] = "\t" THEN column + width - (column % width)
                                       ELSE column + 1,
                      Tail(run), width)

\* the column after a run of whitespace, a tab moving it by the remainder of
\* the column, or by the tab width when the column is a multiple of it
RECURSIVE RemainderTabStops(_, _, _)
RemainderTabStops(column, run, width) ==
    IF run = <<>> THEN column
    ELSE RemainderTabStops(IF run[1] = "\t"
                           THEN column + (IF (column % width) = 0 THEN width
                                          ELSE (column % width))
                           ELSE column + 1,
                           Tail(run), width)

\* a scan has produced a whitespace token
ScannedWhitespace == cursor'.kind = Some("Whitespace") /\ cursor' # cursor

\* C21: while whitespace is scanned a tab moves the column to the next
\* multiple of tabWidth, for every tabWidth and every starting column, and
\* every other whitespace character moves it by one.
C21_TabMovesToNextMultiple ==
    [][ScannedWhitespace
          => cursor'.column
               = NextTabStops(cursor.column, cursor'.text[1], cursor.tabWidth)]_vars

\* the same with the tab moving the column by its remainder
TabMovesByRemainder ==
    [][ScannedWhitespace
          => cursor'.column
               = RemainderTabStops(cursor.column, cursor'.text[1], cursor.tabWidth)]_vars

\* the same as C21 for the tab widths 1 and 2 only
TabMovesToNextMultipleOfTwo ==
    [][(ScannedWhitespace /\ cursor.tabWidth <= 2)
          => cursor'.column
               = NextTabStops(cursor.column, cursor'.text[1], cursor.tabWidth)]_vars

-----------------------------------------------------------------------------
(* ReadHandle.readStream (archivers/git.js): a stream over the bytes of a   *)
(* handle, read in chunks (SpecStream)                                     *)

size64K == 65536

size32K == 32768

\* the default of the parameter `end`, larger than any position
Infinity == 1073741824

MaxData == 4

\* reasonableBuffer(length).byteLength
reasonableBuffer(length) == IF length > size64K THEN size32K ELSE length

\* the bytes of the target, each telling its position
DataPool == { [i \in 1..n |-> 10 + i] : n \in 0..MaxData }

\* handle.read(buffer, 0, count, at): the numbers of bytes that a read
\* may deliver: some, but not more than asked for or than there are, and
\* none only at the end of the data
BytesRead(data, count, at) ==
    IF at >= Len(data) \/ count = 0 THEN { 0 }
    ELSE 1..Min(count, Len(data) - at)

\* readStream(start, end) on a handle over the data
InitStream ==
    /\ queryList = NewQueryList
    /\ properties = <<>>
    /\ matchResult = None
    /\ text = <<>>
    /\ cursor = NewScanner
    /\ pc = "parsed"
    /\ isNotted = FALSE
    /\ parenDepth = 0
    /\ feature = None
    /\ returned = None
    /\ result = <<>>
    /\ skipping = NoSkip
    /\ NewIndex
    /\ acquire = NoAcquire
    /\ stream \in { [data |-> d, from |-> s, start |-> s, end |-> e,
                     yielded |-> <<>>, pc |-> "reading"] :
                       d \in DataPool, s \in 0..MaxData,
                       e \in 0..MaxData \cup { Infinity } }

\* asyncIterableOverHandle: one pass of the loop, `start < end` holding: a
\* read of the bytes still wanted, as far as the buffer goes; the end of the
\* stream when it delivers nothing, else the bytes read are yielded
ReadChunk ==
    /\ stream.pc = "reading"
    /\ stream.start < stream.end
    /\ \E count \in { Min(1 + stream.end - stream.start,
                              reasonableBuffer(1 + stream.end - stream.start)) } :
         \E bytesRead \in BytesRead(stream.data, count, stream.start) :
            stream' = IF bytesRead = 0
                      THEN [stream EXCEPT !.pc = "ended"]
                      ELSE [stream EXCEPT
                               !.start = @ + bytesRead,
                               !.yielded = Append(@, SubSeq(stream.data, stream.start + 1,
                                                            stream.start + bytesRead))]
    /\ UNCHANGED <<acquire>>
    /\ UNCHANGED matchVars
    /\ UNCHANGED parseVars
    /\ UNCHANGED indexVars

\* asyncIterableOverHandle: the loop is left, `start < end` not holding
EndOfStream ==
    /\ stream.pc = "reading"
    /\ ~(stream.start < stream.end)
    /\ stream' = [stream EXCEPT !.pc = "ended"]
    /\ UNCHANGED <<acquire>>
    /\ UNCHANGED matchVars
    /\ UNCHANGED parseVars
    /\ UNCHANGED indexVars

NextStream == ReadChunk \/ EndOfStream

SpecStream == InitStream /\ [][NextStream]_vars

-----------------------------------------------------------------------------
(* acquireArtifacts (cli/artifacts): the resolved artifacts are installed   *)
(* one after the other (SpecAcquire)                                       *)

MaxResolved == 3

\* what artifact.install comes back with: an InstallStatus, or an error
InstallOutcomes == { "Installed", "AlreadyInstalled", "Failed", "throws" }

\* the entries of `resolved`: two artifacts, and one entry whose artifact is
\* no Artifact
ResolvedPool ==
    { [id |-> S_a, isArtifact |-> TRUE],
      [id |-> S_b, isArtifact |-> TRUE],
      [id |-> S_x, isArtifact |-> FALSE] }

RECURSIVE ResolvedUpTo(_)
ResolvedUpTo(n) ==
    IF n = 0 THEN { <<>> }
    ELSE LET shorter == ResolvedUpTo(n - 1)
         IN shorter \cup { Append(r, e) : r \in shorter, e \in ResolvedPool }

\* Session.trackAcquire(registryUri, id, version)
trackAcquire(acquiredArtifacts, registryUri, id, version) ==
    Append(acquiredArtifacts, [registryUri |-> registryUri, id |-> id, version |-> version])

\* an install has been started and has not come back
Installing == Len(acquire.started) > Len(acquire.outcomes)

\* acquireArtifacts(session, resolved, registries, options) is called
InitAcquire ==
    /\ queryList = NewQueryList
    /\ properties = <<>>
    /\ matchResult = None
    /\ text = <<>>
    /\ cursor = NewScanner
    /\ pc = "parsed"
    /\ isNotted = FALSE
    /\ parenDepth = 0
    /\ feature = None
    /\ returned = None
    /\ result = <<>>
    /\ skipping = NoSkip
    /\ NewIndex
    /\ stream = NoStream
    /\ acquire \in { [NoAcquire EXCEPT !.resolved = r] : r \in ResolvedUpTo(MaxResolved) }

\* the for statement: past the last entry true is returned; an entry that
\* holds no Artifact is passed over; the install of an Artifact is started
Loop ==
    /\ acquire.returned = None
    /\ ~Installing
    /\ acquire' =
          IF ~(acquire.idx < Len(acquire.resolved))
          THEN [acquire EXCEPT !.returned = Some(TRUE)]
          ELSE IF acquire.resolved[acquire.idx + 1].isArtifact
               THEN [acquire EXCEPT !.started = Append(@, acquire.idx)]
               ELSE [acquire EXCEPT !.idx = @ + 1]
    /\ UNCHANGED <<stream>>
    /\ UNCHANGED matchVars
    /\ UNCHANGED parseVars
    /\ UNCHANGED indexVars

\* a mutation of InstallReturns: an artifact that was installed already is
\* tracked as well
InstallReturns_TrackAlreadyInstalled ==
    /\ acquire.returned = None
    /\ Installing
    /\ \E installStatus \in InstallOutcomes :
         acquire' =
            [acquire EXCEPT
                !.outcomes = Append(@, installStatus),
                !.acquiredArtifacts =
                    IF installStatus \in { "Installed", "AlreadyInstalled" }
                    THEN trackAcquire(@, S_x, acquire.resolved[acquire.idx + 1].id, S_100)
                    ELSE @,
                !.idx = IF installStatus \in { "Installed", "AlreadyInstalled" }
                        THEN @ + 1 ELSE @,
                !.returned = IF installStatus \in { "Failed", "throws" }
                             THEN Some(FALSE) ELSE @]
    /\ UNCHANGED <<stream>>
    /\ UNCHANGED matchVars
    /\ UNCHANGED parseVars
    /\ UNCHANGED indexVars

\* `await artifact.install(...)` comes back: Installed is tracked in the
\* session, Installed and AlreadyInstalled go on with the next entry, Failed
\* and an error return false
InstallReturns ==
    /\ acquire.returned = None
    /\ Installing
    /\ \E installStatus \in InstallOutcomes :
         acquire' =
            [acquire EXCEPT
                !.outcomes = Append(@, installStatus),
                !.acquiredArtifacts =
                    IF installStatus = "Installed"
                    THEN trackAcquire(@, S_x, acquire.resolved[acquire.idx + 1].id, S_100)
                    ELSE @,
                !.idx = IF installStatus \in { "Installed", "AlreadyInstalled" }
                        THEN @ + 1 ELSE @,
                !.returned = IF installStatus \in { "Failed", "throws" }
                             THEN Some(FALSE) ELSE @]
    /\ UNCHANGED <<stream>>
    /\ UNCHANGED matchVars
    /\ UNCHANGED parseVars
    /\ UNCHANGED indexVars

NextAcquire == Loop \/ InstallReturns

SpecAcquire == InitAcquire /\ [][NextAcquire]_vars

-----------------------------------------------------------------------------
(* Lookup by name or short name *)

\* the ids of the inserted targets whose identity is `identity`
TargetsNamed(identity) ==
    { n \in 0..(Len(targets) - 1) : targets[n + 1].id = identity }

\* value is made of the trailing segments of identity
IsShortNameOf(value, identity) ==
    \E n \in 1..Len(SplitSlash(identity)) : shortName(identity, n) = value

\* the selection of a schema after it is narrowed to ids
NarrowedTo(schema, ids) == Some(SelectedIds(schema, targets) \cap ids)

IsCurrent(key) == KeyDoneInsertion("identity", key) = key

\* the identities whose short name, as doneInsertion last set it, is value
IdentitiesCalled(key, value) ==
    { identity \in DOMAIN key.idShortName : key.idShortName[identity] = value }

\* C26: in a view of an index on which doneInsertion has run after the last
\* insert, every name that nameOrShortNameIs finds in the short-name map is
\* the current short name of an identity, and the lookup selects the targets
\* of that identity.
C26_NoStaleShortName ==
    \A h \in Views, value \in LookupValues :
       \A key \in { schemas[h].keys["id"] } :
          (IsCurrent(key) /\ value \in DOMAIN key.identities)
             => \E identity \in IdentitiesCalled(key, value) :
                   nameOrShortNameIs(heap, schemas[h], "id", value).selectedElements
                      = NarrowedTo(schemas[h], TargetsNamed(identity))

\* The short-name map of a key on which doneInsertion has run holds the
\* current short name of every identity (and may hold earlier ones).
CurrentShortNamesAreLookedUp ==
    \A h \in Views :
       \A key \in { schemas[h].keys["id"] } :
          IsCurrent(key)
             => \A identity \in DOMAIN key.values :
                   /\ identity \in DOMAIN key.idShortName
                   /\ key.idShortName[identity] \in DOMAIN key.identities
                   /\ IdsOf(heap, MapGet("string", key.identities,
                                         key.idShortName[identity]))
                         = TargetsNamed(identity)

-----------------------------------------------------------------------------
(* Range queries *)

\* the ids that the value map of key k of a schema holds under a key value
\* whose comparison with value gives a number of lowest..highest
IdsWithValue(schema, k, value, lowest, highest) ==
    { n \in 0..(Len(targets) - 1) :
         \E e \in DOMAIN schema.keys[k].values :
            /\ n \in heap[schema.keys[k].values[e]]
            /\ compare(KindOf(k), e, value) \in lowest..highest }

\* the values a range query is asked with: given, and of the key's type
RangeValues(k) ==
    { value \in QueryValues : Given(value) /\ IsSome(coerce(KindOf(k), value)) }

\* C23: greaterThan(v) narrows the selection to the targets with a key value
\* strictly greater than v, lessThan(v) to those with a key value strictly
\* less than v.
C23_RangeQueriesAreStrict ==
    \A h \in Views, k \in KeySet :
       \A value \in RangeValues(k) :
          \A v \in { coerce(KindOf(k), value)[1] } :
             /\ greaterThan(heap, schemas[h], k, value).selectedElements
                   = NarrowedTo(schemas[h], IdsWithValue(schemas[h], k, v, 1, 1))
             /\ lessThan(heap, schemas[h], k, value).selectedElements
                   = NarrowedTo(schemas[h], IdsWithValue(schemas[h], k, v, -1, -1))

\* greaterThan(v) narrows the selection to the targets with a key value that
\* is v or greater, lessThan(v) to those with a key value strictly less.
RangeQueriesIncludeTheValueBelow ==
    \A h \in Views, k \in KeySet :
       \A value \in RangeValues(k) :
          \A v \in { coerce(KindOf(k), value)[1] } :
             /\ greaterThan(heap, schemas[h], k, value).selectedElements
                   = NarrowedTo(schemas[h], IdsWithValue(schemas[h], k, v, 0, 1))
             /\ lessThan(heap, schemas[h], k, value).selectedElements
                   = NarrowedTo(schemas[h], IdsWithValue(schemas[h], k, v, -1, -1))

-----------------------------------------------------------------------------
(* Word search *)

S_proto == <<"p", "r", "o", "t", "o">>

\* the words asked for: whole words, runs of words, a string cut out of the
\* middle of a word, runs that begin or end with a separator, a run that
\* holds a space
WordQueries ==
    { S_x, S_y, S_a, S_ax, S_bx, S___proto__, S_proto, S_xy,
      <<"/", "x">>, <<"a", "/">>, <<"_">> }

\* a word token of value begins at position i, ends at position j
WordBeginsAt(value, i) ==
    i = 1 \/ (isWordChar(value[i]) /\ ~isWordChar(value[i - 1]))

WordEndsAt(value, j) ==
    j = Len(value) \/ (isWordChar(value[j]) /\ ~isWordChar(value[j + 1]))

\* w is a run of whole word tokens of value, with the separators between
\* them, and holds no space
IsWordRun(w, value) ==
    /\ w # <<>>
    /\ \A p \in DOMAIN w : w[p] # " "
    /\ \E i \in DOMAIN value, j \in DOMAIN value :
          /\ i <= j
          /\ WordBeginsAt(value, i)
          /\ WordEndsAt(value, j)
          /\ SubSeq(value, i, j) = w

\* the keys that index words: every key but a SemverKey
WordKeys == { k \in KeySet : KindOf(k) # "semver" }

\* C24: in a view of the index as it is, contains(w) with a non-empty w
\* narrows the selection to exactly the targets of which a key value has w
\* as a run of whole words; a string cut out of a word selects nothing.
C24_ContainsFindsRunsOfWholeWords ==
    \A h \in Views :
       schemas[h].keys = schemas[1].keys
          => \A k \in WordKeys, w \in WordQueries :
                contains(heap, schemas[h], k, w).selectedElements
                   = NarrowedTo(schemas[h],
                                { n \in 0..(Len(targets) - 1) :
                                     IsWordRun(w, Accessor(k, targets[n + 1])) })

\* C24 witness: a view of the targets a/x and __proto__ has been narrowed to
\* the first, which contains(x) does, and contains(proto) selects nothing
C24_Witness ==
    /\ Len(targets) = 2
    /\ targets[1].id = S_ax
    /\ targets[2].id = S___proto__
    /\ \E h \in Views :
          /\ schemas[h].keys = schemas[1].keys
          /\ schemas[h].selectedElements = Some({0})
          /\ contains(heap, schemas[h], "id", S_x).selectedElements = Some({0})
          /\ contains(heap, [schemas[h] EXCEPT !.selectedElements = None],
                      "id", S_proto).selectedElements = Some({})

-----------------------------------------------------------------------------
(* deserialize on an index that holds data *)

\* the names under which a map of the reloaded index holds entries
HeldNames(k, field) ==
    { KeyToString(IF field = "values" THEN KindOf(k) ELSE "string", e) :
         e \in DOMAIN restored[1].indexSchema.keys[k][field] }

\* the names under which the content has entries for the map
ContentNames(k, field) ==
    IF field = "values" THEN DOMAIN persisted[1].indexes[k].keys
    ELSE IF IsSome(persisted[1].indexes[k].words)
         THEN DOMAIN persisted[1].indexes[k].words[1]
         ELSE {}

\* the ids that index.where.<k>.equals(value) selects in the reloaded index
ReloadedEqualsIds(k, value) ==
    EqualsIds(heap, restored[1].indexOfTargets, restored[1].indexSchema, k, value)

\* C25: once deserialize has run on an index that held data, the value map
\* and the word index of every key hold exactly the entries of the content,
\* and a query returns ids of the content's items only.
C25_DeserializeReplacesData ==
    (IsSome(restored) /\ thrown = None)
       => \A k \in KeySet :
             /\ HeldNames(k, "values") = ContentNames(k, "values")
             /\ HeldNames(k, "words") = ContentNames(k, "words")
             /\ \A value \in { S_ax, S_bx, S___proto__, S_x, S_y, S_100 } :
                   IsSome(coerce(KindOf(k), value))
                      => ReloadedEqualsIds(k, value)
                            \subseteq 0..(Len(restored[1].indexOfTargets) - 1)

\* Once deserialize has run, every key holds the entries of the content, and
\* with them those it held before the call.
DeserializeAddsData ==
    (IsSome(restored) /\ thrown = None)
       => \A k \in KeySet :
             /\ ContentNames(k, "values") \subseteq HeldNames(k, "values")
             /\ ContentNames(k, "words") \subseteq HeldNames(k, "words")

-----------------------------------------------------------------------------
(* reset *)

\* the ids of the targets that index.where.items returns, no query made
UnfilteredItems(ss, items) == SelectedIds(ss[Len(ss)], items)

\* C27: reset leaves the index as a newly constructed one: the schema is
\* new, the unfiltered items of a view are none, and no target is held, so
\* that the next insert gives the id 0.
C27_ResetGivesNewIndex ==
    [][Reset => /\ schemas'[1] = NewSchema
                /\ UnfilteredItems(where(schemas').schemas, targets') = {}
                /\ Len(targets') = 0]_vars

\* reset leaves the index with a new schema, whose keys hold nothing, and
\* with the targets it had.
ResetGivesNewSchemaOnly ==
    [][Reset => /\ schemas'[1] = NewSchema
                /\ targets' = targets
                /\ UnfilteredItems(where(schemas').schemas, targets')
                      = 0..(Len(targets) - 1)]_vars

-----------------------------------------------------------------------------
(* Texts with a query missing *)

\* texts that hold no query at all
QuerylessTexts == { <<>>, <<" ">>, <<" ", " ">> }

\* texts that end in a comma with no query after it
TrailingCommaTexts == { <<"a", ",">>, <<"a", ",", " ">>, <<" ", "a", ",">> }

\* C28: the empty text, a text of whitespace only and a text that ends in a
\* comma with no query after it are rejected: the parsed list is not valid.
C28_MissingQueryIsRejected ==
    (pc = "parsed" /\ text \in QuerylessTexts \cup TrailingCommaTexts)
       => ~IsValid(queryList)

\* A text that holds no query parses to a valid list of no queries, and a
\* text that ends in a comma after the query a to the valid list of that one
\* query.
MissingQueryIsLeftOut ==
    /\ (pc = "parsed" /\ text \in QuerylessTexts)
          => IsValid(queryList) /\ queryList.queries = <<>>
    /\ (pc = "parsed" /\ text \in TrailingCommaTexts)
          => /\ IsValid(queryList)
             /\ Len(queryList.queries) = 1
             /\ Len(queryList.queries[1]) = 1
             /\ Feature(queryList.queries[1][1]) = S_a

-----------------------------------------------------------------------------
(* The bytes of a stream *)

\* the chunks of a stream, one after the other
RECURSIVE Joined(_)
Joined(chunks) == IF chunks = <<>> THEN <<>> ELSE chunks[1] \o Joined(Tail(chunks))

\* the bytes of the data at the positions first to last, as far as there
\* are any
BytesAt(data, first, last) == SubSeq(data, first + 1, Min(last + 1, Len(data)))

\* C29: a stream that has ended has yielded, in order, the bytes at the
\* positions start to end, or to the end of the data, however the reads
\* were chunked.
C29_StreamYieldsStartThroughEnd ==
    (stream.pc = "ended" /\ stream.from <= stream.end)
       => Joined(stream.yielded) = BytesAt(stream.data, stream.from, stream.end)

\* A stream that has ended has yielded the bytes at the positions start to
\* end in order, the last of them left out when the reads before had
\* delivered all the others, and all of them when end is beyond the data.
StreamYieldsAllOrAllButLast ==
    (stream.pc = "ended" /\ stream.from <= stream.end)
       => \/ Joined(stream.yielded) = BytesAt(stream.data, stream.from, stream.end)
          \/ /\ stream.end < Len(stream.data)
             /\ Joined(stream.yielded) = BytesAt(stream.data, stream.from, stream.end - 1)

-----------------------------------------------------------------------------
(* The installs of acquireArtifacts *)

\* the positions of the entries of `resolved` that hold an Artifact, in the
\* order of the list
ArtifactPositions ==
    SelectSeq([i \in 1..Len(acquire.resolved) |-> i - 1],
              LAMBDA at : acquire.resolved[at + 1].isArtifact)

\* the ids of the artifacts whose install came back with Installed, in the
\* order of the installs
InstalledIds ==
    LET done == SelectSeq([i \in 1..Len(acquire.outcomes) |-> i],
                          LAMBDA i : acquire.outcomes[i] = "Installed")
    IN [n \in 1..Len(done) |-> acquire.resolved[acquire.started[done[n]] + 1].id]

\* the ids that the session has tracked, in the order of the calls
TrackedIds == [n \in 1..Len(acquire.acquiredArtifacts) |-> acquire.acquiredArtifacts[n].id]

\* C30: the installs are started in the order of the list, none left out
\* and the next only when the one before has come back; an install that
\* comes back Failed or with an error is the last one started, and false is
\* returned; true is returned only when every artifact has been installed
\* and each install came back Installed or AlreadyInstalled; and the
\* session has tracked exactly the installs that came back Installed, each
\* once.
C30_InstallsInOrderUntilFailure ==
    /\ acquire.started = SubSeq(ArtifactPositions, 1, Len(acquire.started))
    /\ Len(acquire.started) - Len(acquire.outcomes) \in { 0, 1 }
    /\ \A i \in DOMAIN acquire.outcomes :
          acquire.outcomes[i] \in { "Failed", "throws" }
             => i = Len(acquire.started) /\ acquire.returned = Some(FALSE)
    /\ acquire.returned = Some(FALSE)
          => /\ acquire.outcomes # <<>>
             /\ acquire.outcomes[Len(acquire.outcomes)] \in { "Failed", "throws" }
    /\ acquire.returned = Some(TRUE)
          => /\ Len(acquire.outcomes) = Len(ArtifactPositions)
             /\ \A i \in DOMAIN acquire.outcomes :
                   acquire.outcomes[i] \in { "Installed", "AlreadyInstalled" }
    /\ TrackedIds = InstalledIds

\* C30 witness: of three artifacts the first was installed and tracked, the
\* install of the second failed, false was returned and the install of the
\* third was not started
C30_Witness ==
    /\ Len(ArtifactPositions) = 3
    /\ acquire.outcomes = <<"Installed", "Failed">>
    /\ acquire.started = <<0, 1>>
    /\ Len(acquire.acquiredArtifacts) = 1
    /\ acquire.returned = Some(FALSE)
====
